---- MODULE Spec2Model ----
(***************************************************************************)
(* The per-interface NDP state machine of pkg/tcpip/network/ipv6/ndp.go:   *)
(* Duplicate Address Detection, default-router and on-link prefix          *)
(* discovery, SLAAC (stable and temporary addresses) and Router            *)
(* Solicitation, driven by Router Advertisements, by one-shot jobs and by  *)
(* the owning endpoint.                                                    *)
(*                                                                         *)
(* Every handler runs under the endpoint lock, so a handler is one atomic  *)
(* action.  A handler is written as an operator from the state record `s`  *)
(* (all fields of ndpState plus what it reaches through ndp.ep) to the     *)
(* state record after it; an action commits that record to the variables.  *)
(*                                                                         *)
(* Time is counted in ticks of one hour.  Durations of the configuration   *)
(* and lifetimes of Router Advertisements are numbers of ticks.            *)
(***************************************************************************)
EXTENDS Integers, Sequences, FiniteSets, TLC

(***************************************************************************)
(* Bounds of the model.                                                    *)
(***************************************************************************)
\* The clock stops after MaxTime ticks.
MaxTime == 2
\* Static (manually added) unicast addresses: 1..NumStaticAddrs.
NumStaticAddrs == 2
\* Largest DupAddrDetectTransmits a configuration of the DAD scenarios draws.
MaxDadTransmits == 2
\* Largest MaxRtrSolicitations a configuration draws.
MaxRtrSolicit == 2
\* Number of temporary interface identifiers the generator hands out.
MaxTempIIDs == 2

(***************************************************************************)
(* Program constants.                                                      *)
(***************************************************************************)
MaxDiscoveredDefaultRouters == 10
MaxDiscoveredOnLinkPrefixes == 10
validPrefixLenForAutoGen == 64
maxSLAACAddrLocalRegenAttempts == 10
\* 2 hours, in ticks.
MinPrefixInformationValidLifetimeForUpdate == 2
\* header.NDPInfiniteLifetime is 2^32 - 1 seconds; in whole hours.
NDPInfiniteLifetime == 1193046
\* time.Time{}: an instant before every instant of the clock.
ZeroTime == -1
\* uint8 arithmetic of generationAttempts, maxGenerationAttempts, remaining.
Uint8 == 256

VARIABLES
    now,                  \* time.Now(), in ticks
    configs,              \* ndp.configs
    protocol,             \* what ndp.ep.protocol and ndp.ep.nic give: NDPDisp, Forwarding, OpaqueIIDOpts, LinkAddress
    addrs,                \* the endpoint's address table: address -> kind, config type, deprecated
    dad,                  \* ndp.dad
    defaultRouters,       \* ndp.defaultRouters
    onLinkPrefixes,       \* ndp.onLinkPrefixes
    slaacPrefixes,        \* ndp.slaacPrefixes
    dhcpv6Configuration,  \* ndp.dhcpv6Configuration
    rtrSolicit,           \* ndp.rtrSolicitJob and the `remaining` its body captured
    temporaryIIDHistory,  \* ndp.temporaryIIDHistory
    desyncFactor,         \* ndp.temporaryAddressDesyncFactor
    jobs,                 \* the pending tcpip.Jobs: job -> scheduled (with deadline) or fired
    events,               \* dispatcher callbacks and packets of the last action, in order
    panic,                \* the panic that aborted the process, or NoPanic
    hist,                 \* history of the run, kept for the properties only
    env                   \* the endpoint's surroundings: what can arrive or be asked

vars == <<now, configs, protocol, addrs, dad, defaultRouters, onLinkPrefixes,
          slaacPrefixes, dhcpv6Configuration, rtrSolicit, temporaryIIDHistory,
          desyncFactor, jobs, events, panic, hist, env>>

(***************************************************************************)
(* Keys.  Addresses, prefixes and routers are records of one shape, so     *)
(* that any two keys can be compared.                                      *)
(***************************************************************************)
Key(t, p, c) == [t |-> t, p |-> p, c |-> c]
\* A nil stack.AddressEndpoint.
NilAddr == Key("nil", 0, 0)
\* A static unicast address.
StaticAddr(i) == Key("static", 0, i)
StaticAddrs == {StaticAddr(i) : i \in 1..NumStaticAddrs}
\* A multicast address: not a unicast address.
MulticastAddr == Key("multicast", 0, 0)
\* A router's link-local source address.
Router(i) == Key("router", 0, i)
\* A subnet: prefix id p with prefix length len.  Prefix id 0 is fe80::.
Prefix(p, len) == Key("prefix", p, len)
IPv6LinkLocalPrefix == Prefix(0, 64)
\* The stable SLAAC address of prefix id p generated with DAD counter c.
StableAddr(p, c) == Key("stable", p, c)
\* The temporary SLAAC address of prefix id p with the n-th temporary IID.
TempAddr(p, n) == Key("temp", p, n)
\* addr.Subnet() of a generated address (always a /64).
SubnetOf(addr) == Prefix(addr.p, validPrefixLenForAutoGen)
IsV6UnicastAddress(addr) == addr.t \in {"static", "stable", "temp"}
IsV6LinkLocalAddress(prefix) == prefix.p = 0

(***************************************************************************)
(* Go maps.                                                                *)
(***************************************************************************)
EmptyMap == <<>>
Put(m, k, v) == [x \in DOMAIN m \cup {k} |-> IF x = k THEN v ELSE m[x]]
Del(m, k) == [x \in DOMAIN m \ {k} |-> m[x]]
Has(m, k) == k \in DOMAIN m

NoPanic == "none"

\* No job: what the history of late cancellations holds at a handler's start.
NoJob == [role |-> "none", key |-> <<>>]

\* The state record a handler works on.
St == [now |-> now, configs |-> configs, protocol |-> protocol, addrs |-> addrs,
       dad |-> dad, defaultRouters |-> defaultRouters,
       onLinkPrefixes |-> onLinkPrefixes, slaacPrefixes |-> slaacPrefixes,
       dhcpv6Configuration |-> dhcpv6Configuration, rtrSolicit |-> rtrSolicit,
       temporaryIIDHistory |-> temporaryIIDHistory, desyncFactor |-> desyncFactor,
       jobs |-> jobs, events |-> <<>>, panic |-> panic,
       hist |-> [hist EXCEPT !.late = NoJob],
       disp |-> [router |-> TRUE, prefix |-> TRUE, stable |-> TRUE, temp |-> TRUE],
       desc |-> FALSE, ret |-> FALSE, psKey |-> NilAddr, ps |-> <<>>]

\* Besides the program's state, the record holds what a handler's frame holds:
\*   disp   the integrator's answers to the callbacks that return a bool,
\*   desc   whether Go's `range` over a map visits the keys in descending order,
\*   ret    the value the last call returned (a bool; for an error, err != nil),
\*   psKey, ps   the slaacPrefixState a caller holds by value and passes by pointer.
\* The state record at the start of a handler during which the integrator's
\* dispatcher answers d (d.router, d.prefix, d.stable, d.temp).
Begin(d) == [St EXCEPT !.disp = d]
BeginIter(d, desc) == [St EXCEPT !.disp = d, !.desc = desc]
AcceptAll == [router |-> TRUE, prefix |-> TRUE, stable |-> TRUE, temp |-> TRUE]

Commit(s) ==
    /\ now' = s.now
    /\ configs' = s.configs
    /\ protocol' = s.protocol
    /\ addrs' = s.addrs
    /\ dad' = s.dad
    /\ defaultRouters' = s.defaultRouters
    /\ onLinkPrefixes' = s.onLinkPrefixes
    /\ slaacPrefixes' = s.slaacPrefixes
    /\ dhcpv6Configuration' = s.dhcpv6Configuration
    /\ rtrSolicit' = s.rtrSolicit
    /\ temporaryIIDHistory' = s.temporaryIIDHistory
    /\ desyncFactor' = s.desyncFactor
    /\ jobs' = s.jobs
    /\ events' = s.events
    /\ panic' = s.panic
    /\ hist' = s.hist
    /\ env' = env

\* panic(...): the process aborts; the handler does nothing further.
Panic(s, msg) == IF s.panic # NoPanic THEN s ELSE [s EXCEPT !.panic = msg]
Ok(s) == s.panic = NoPanic

(***************************************************************************)
(* Dispatcher callbacks and packets.                                       *)
(***************************************************************************)
Ev(type, key, a, b) == [type |-> type, key |-> key, a |-> a, b |-> b]
Emit(s, e) == [s EXCEPT !.events = Append(@, e)]

\* History, of the kinds the run follows (hist.follow).
\* History of the callbacks: the last lifecycle callback of each key (phase),
\* the DADStatus callbacks of the current DAD run of an address (dadRun), and
\* the callbacks on a router since the Router Advertisement that opened its
\* episode (ep).
PhaseAfter(e, old) ==
    CASE e.type \in {"RouterDiscovered", "OnLinkPrefixDiscovered"} ->
            IF e.a THEN "discovered" ELSE old
      [] e.type = "AutoGenAddress" -> IF e.a THEN "generated" ELSE old
      [] e.type = "AutoGenAddressDeprecated" -> "deprecated"
      [] e.type \in {"RouterInvalidated", "OnLinkPrefixInvalidated",
                     "AutoGenAddressInvalidated"} -> "invalidated"
      [] OTHER -> old
PhaseOf(h, key) == IF Has(h.phase, key) THEN h.phase[key] ELSE "none"
Follows(s, h) == h \in s.hist.follow
GhostNotify(s, e) ==
    IF e.type = "DADStatus"
    THEN IF Has(s.hist.dadRun, e.key)
         THEN [s EXCEPT !.hist.dadRun[e.key].status = @ + 1]
         ELSE s
    ELSE IF Follows(s, "phase") /\ PhaseAfter(e, "none") # "none"
    THEN [s EXCEPT !.hist.phase = Put(@, e.key, PhaseAfter(e, PhaseOf(s.hist, e.key))),
                   !.hist.ep = IF ~Has(@, e.key) THEN @
                               ELSE IF e.type = "RouterDiscovered"
                               THEN [@ EXCEPT ![e.key].disc = @ + 1]
                               ELSE IF e.type = "RouterInvalidated"
                               THEN [@ EXCEPT ![e.key].inv = @ + 1]
                               ELSE @]
    ELSE s
\* A call of ndpDisp.X(...) guarded by `ndpDisp != nil`.
Notify(s, e) == IF s.protocol.NDPDisp THEN GhostNotify(Emit(s, e), e) ELSE s
EventsOf(type, key) == SelectSeq(events, LAMBDA e : e.type = type /\ e.key = key)
CountOf(type, key) == Len(EventsOf(type, key))
EventsOfType(type) == SelectSeq(events, LAMBDA e : e.type = type)

(***************************************************************************)
(* tcpip.Job: a cancellable one-shot.  A job is named by its role and the  *)
(* key its body closes over.  `jobs` holds the jobs that are scheduled     *)
(* (their timer has not expired) or fired (the timer expired and the body  *)
(* waits for the endpoint lock); a job that is not in `jobs` is idle: new, *)
(* cancelled, or done.                                                     *)
(***************************************************************************)
JobId(role, key) == [role |-> role, key |-> key]
\* The clock stops at MaxTime: every deadline after it is the same deadline.
Horizon == MaxTime + 1
\* job.Schedule(d): replaces a pending deadline.  A delay of 0 expires at once.
Schedule(s, id, d) ==
    [s EXCEPT !.jobs = Put(@, id, IF d <= 0 THEN [st |-> "fired", at |-> s.now]
                                  ELSE IF s.now + d > Horizon THEN [st |-> "sched", at |-> Horizon]
                                  ELSE [st |-> "sched", at |-> s.now + d])]
\* job.Cancel(): the body does not run afterwards, also if its timer expired.
\* History: the job the handler cancelled after its timer had expired.
Cancel(s, id) ==
    [s EXCEPT !.jobs = Del(@, id),
              !.hist.late = IF Follows(s, "late") /\ Has(s.jobs, id)
                               /\ s.jobs[id].st = "fired"
                            THEN id ELSE @]
\* The deadlines that have come at time t expire.
Expire(js, t) ==
    [id \in DOMAIN js |-> IF js[id].st = "sched" /\ js[id].at <= t
                           THEN [st |-> "fired", at |-> js[id].at] ELSE js[id]]
\* The body of job id may run: its timer expired and it was not cancelled.
Fired(id) == Has(jobs, id) /\ jobs[id].st = "fired"
Pending(js, id) == Has(js, id)
\* The runtime takes the job off the timer when it starts its body.
TakeJob(s, id) == [s EXCEPT !.jobs = Del(@, id)]

(***************************************************************************)
(* stack.AddressEndpoint: a handle is the address; the object of an        *)
(* address that was removed from the endpoint is PermanentExpired.         *)
(***************************************************************************)
GetKind(s, a) == IF Has(s.addrs, a) THEN s.addrs[a].kind ELSE "PermanentExpired"
SetKind(s, a, k) == IF Has(s.addrs, a) THEN [s EXCEPT !.addrs[a].kind = k] ELSE s
Deprecated(s, a) == Has(s.addrs, a) /\ s.addrs[a].deprecated
SetDeprecated(s, a, v) ==
    IF Has(s.addrs, a) THEN [s EXCEPT !.addrs[a].deprecated = v] ELSE s
ConfigType(s, a) == IF Has(s.addrs, a) THEN s.addrs[a].configType ELSE "none"
hasPermanentAddressRLocked(s, a) == Has(s.addrs, a)

(***************************************************************************)
(* Duplicate Address Detection: start and stop.                            *)
(***************************************************************************)
DadJob(addr) == JobId("dad", addr)

\* History: a DAD run of addr begins / ends / a Neighbor Solicitation was sent.
GhostDadStart(s, addr) ==
    IF ~Follows(s, "dadRun") THEN s ELSE
    [s EXCEPT !.hist.dadRun = Put(@, addr, [ns |-> 0, status |-> 0, lastNS |-> ZeroTime,
                                            start |-> s.now, outcome |-> "running",
                                            end |-> ZeroTime, jobAtEnd |-> "none"])]
GhostDadEnd(s, addr, outcome) ==
    IF Has(s.hist.dadRun, addr)
    THEN [s EXCEPT !.hist.dadRun[addr].outcome = outcome,
                   !.hist.dadRun[addr].end = s.now,
                   !.hist.dadRun[addr].jobAtEnd =
                       IF Has(s.jobs, DadJob(addr)) THEN s.jobs[DadJob(addr)].st ELSE "none"]
         ELSE s
GhostNS(s, addr) ==
    IF Has(s.hist.dadRun, addr)
    THEN [s EXCEPT !.hist.dadRun[addr].ns = @ + 1, !.hist.dadRun[addr].lastNS = s.now]
    ELSE s

\* A resolution that does not tell the integrator.
dadResolveAtOnceSilently(s, addr) ==
    [SetKind(GhostDadEnd(s, addr, "resolved"), addr, "Permanent") EXCEPT !.ret = FALSE]

\* The branch `remaining == 0` of startDuplicateAddressDetection.
dadResolveAtOnce(s, addr) ==
    [Notify(SetKind(GhostDadEnd(s, addr, "resolved"), addr, "Permanent"),
            Ev("DADStatus", addr, TRUE, "nil"))
        EXCEPT !.ret = FALSE]

startDuplicateAddressDetection(s, addr) ==
    IF ~Ok(s) THEN s
    ELSE IF ~IsV6UnicastAddress(addr) THEN [s EXCEPT !.ret = TRUE]
    ELSE IF GetKind(s, addr) # "PermanentTentative"
        THEN Panic(s, "ndpdad: addr is not tentative")
    ELSE IF Has(s.dad, addr)
        THEN Panic(s, "ndpdad: already performing DAD")
    ELSE LET remaining == s.configs.DupAddrDetectTransmits
             g == GhostDadStart(s, addr) IN
        IF remaining = 0
        THEN dadResolveAtOnce(g, addr)
        ELSE [Schedule(g, DadJob(addr), 0)
                 EXCEPT !.dad = Put(@, addr, [job |-> DadJob(addr), remaining |-> remaining]),
                        !.ret = FALSE]

\* A stop that leaves the job scheduled.
stopDADWithoutCancel(s, addr) ==
    IF ~Ok(s) THEN s
    ELSE IF ~Has(s.dad, addr) THEN s
    ELSE Notify([GhostDadEnd(s, addr, "stopped") EXCEPT !.dad = Del(@, addr)],
                Ev("DADStatus", addr, FALSE, "nil"))

stopDuplicateAddressDetection(s, addr) ==
    IF ~Ok(s) THEN s
    ELSE IF ~Has(s.dad, addr) THEN s
    ELSE LET s1 == Cancel(GhostDadEnd(s, addr, "stopped"), s.dad[addr].job)
             s2 == [s1 EXCEPT !.dad = Del(@, addr)]
         IN Notify(s2, Ev("DADStatus", addr, FALSE, "nil"))

(***************************************************************************)
(* Go's `range` over a map: the keys of set S in the order the iteration   *)
(* visits them.  Go leaves the order open; a handler's frame fixes it to   *)
(* ascending or descending (s.desc).                                       *)
(***************************************************************************)
Rank(k) == k.p * Uint8 + k.c
RECURSIVE RangeOrder(_, _)
RangeOrder(S, desc) ==
    IF S = {} THEN <<>>
    ELSE LET k == CHOOSE x \in S : \A y \in S :
                      IF desc THEN Rank(y) <= Rank(x) ELSE Rank(x) <= Rank(y)
         IN <<k>> \o RangeOrder(S \ {k}, desc)

(***************************************************************************)
(* SLAAC state.  A slaacPrefixState is a struct that handlers copy; its    *)
(* tempAddrs is a Go map, which every copy shares.  TempAddrsOf is that    *)
(* map for a prefix, SetTempAddrs writes it through to the table entry and *)
(* to the copy the running handler holds (s.ps, for prefix s.psKey).       *)
(***************************************************************************)
TempAddrsOf(s, prefix) ==
    IF s.psKey = prefix THEN s.ps.tempAddrs
    ELSE IF Has(s.slaacPrefixes, prefix) THEN s.slaacPrefixes[prefix].tempAddrs
    ELSE EmptyMap
SetTempAddrs(s, prefix, m) ==
    LET s1 == IF Has(s.slaacPrefixes, prefix)
              THEN [s EXCEPT !.slaacPrefixes[prefix].tempAddrs = m] ELSE s
    IN IF s1.psKey = prefix THEN [s1 EXCEPT !.ps.tempAddrs = m] ELSE s1

\* deprecateSLAACAddress; on a nil handle the method call dereferences nil.
deprecateSLAACAddress(s, addressEndpoint) ==
    IF ~Ok(s) THEN s
    ELSE IF addressEndpoint = NilAddr THEN Panic(s, "nil pointer dereference")
    ELSE IF Deprecated(s, addressEndpoint) THEN s
    ELSE Notify(SetDeprecated(s, addressEndpoint, TRUE),
                Ev("AutoGenAddressDeprecated", addressEndpoint, FALSE, "nil"))

\* cleanupTempSLAACAddrResources(tempAddrs, tempAddr, tempAddrState); the map
\* is named by the prefix that owns it.
\* delete(tempAddrs, tempAddr)
dropTempAddr(s, prefix, tempAddr) ==
    SetTempAddrs(s, prefix, Del(TempAddrsOf(s, prefix), tempAddr))

\* A cleanup that leaves the jobs of the address scheduled.
cleanupTempSLAACAddrResourcesWithoutCancel(s, prefix, tempAddr, tempAddrState) ==
    dropTempAddr(s, prefix, tempAddr)

cleanupTempSLAACAddrResources(s, prefix, tempAddr, tempAddrState) ==
    IF ~Ok(s) THEN s
    ELSE dropTempAddr(Cancel(Cancel(Cancel(s, tempAddrState.deprecationJob),
                                           tempAddrState.invalidationJob),
                                    tempAddrState.regenJob),
                      prefix, tempAddr)

\* The part of cleanupTempSLAACAddrResourcesAndNotify after the integrator
\* has been told.
cleanupTempSLAACAddrResourcesOf(s1, addr, prefix, invalidateAddr) ==
    IF ~invalidateAddr THEN s1
    ELSE IF ~Has(s1.slaacPrefixes, prefix)
        THEN Panic(s1, "ndp: must have a slaacPrefixes entry to clean up temp addr resources")
    ELSE IF ~Has(s1.slaacPrefixes[prefix].tempAddrs, addr)
        THEN Panic(s1, "ndp: must have a tempAddr entry to clean up temp addr resources")
    ELSE cleanupTempSLAACAddrResources(s1, prefix, addr,
                                       s1.slaacPrefixes[prefix].tempAddrs[addr])

cleanupTempSLAACAddrResourcesAndNotify(s, addr, invalidateAddr) ==
    IF ~Ok(s) THEN s
    ELSE cleanupTempSLAACAddrResourcesOf(
             Notify(s, Ev("AutoGenAddressInvalidated", addr, FALSE, "nil")),
             addr, SubnetOf(addr), invalidateAddr)

RECURSIVE removePermanentEndpointLocked(_, _, _)
RECURSIVE invalidateTempAddrs(_, _, _)

\* if err := ...; err != nil { panic(fmt.Sprintf(...)) }
PanicOnError(s, msg) ==
    IF ~Ok(s) THEN s ELSE IF s.ret THEN Panic(s, msg) ELSE s

\* invalidateTempSLAACAddr(tempAddrs, tempAddr, tempAddrState).
invalidateTempSLAACAddr(s, prefix, tempAddr, tempAddrState) ==
    IF ~Ok(s) THEN s
    ELSE cleanupTempSLAACAddrResources(
             PanicOnError(removePermanentEndpointLocked(s, tempAddrState.addressEndpoint,
                                                        FALSE),
                          "error removing temporary SLAAC address"),
             prefix, tempAddr, tempAddrState)

\* for tempAddr, tempAddrState := range state.tempAddrs { invalidateTempSLAACAddr }
invalidateTempAddrs(s, prefix, order) ==
    IF order = <<>> \/ ~Ok(s) THEN s
    ELSE invalidateTempAddrs(
             IF Has(TempAddrsOf(s, prefix), Head(order))
             THEN invalidateTempSLAACAddr(s, prefix, Head(order),
                                          TempAddrsOf(s, prefix)[Head(order)])
             ELSE s,
             prefix, Tail(order))

\* state.deprecationJob.Cancel(); state.invalidationJob.Cancel();
\* delete(ndp.slaacPrefixes, prefix)
dropSLAACPrefix(s1, prefix, state) ==
    IF ~Ok(s1) THEN s1
    ELSE [Cancel(Cancel(s1, state.deprecationJob), state.invalidationJob)
             EXCEPT !.slaacPrefixes = Del(@, prefix)]

\* cleanupSLAACPrefixResources(prefix, state): state is the caller's copy.
cleanupSLAACPrefixResources(s, prefix, state) ==
    IF ~Ok(s) THEN s
    ELSE dropSLAACPrefix(
             invalidateTempAddrs(s, prefix, RangeOrder(DOMAIN state.tempAddrs, s.desc)),
             prefix, state)

\* The part of cleanupSLAACAddrResourcesAndNotify after the integrator has
\* been told.
cleanupSLAACAddrResourcesOf(s1, addr, prefix, invalidatePrefix) ==
    IF \/ ~Has(s1.slaacPrefixes, prefix)
       \/ s1.slaacPrefixes[prefix].stableAddr.addressEndpoint = NilAddr
       \/ addr # s1.slaacPrefixes[prefix].stableAddr.addressEndpoint
    THEN s1
    ELSE IF ~invalidatePrefix
    THEN [s1 EXCEPT !.slaacPrefixes[prefix].stableAddr.addressEndpoint = NilAddr]
    ELSE cleanupSLAACPrefixResources(s1, prefix, s1.slaacPrefixes[prefix])

cleanupSLAACAddrResourcesAndNotify(s, addr, invalidatePrefix) ==
    IF ~Ok(s) THEN s
    ELSE cleanupSLAACAddrResourcesOf(
             Notify(s, Ev("AutoGenAddressInvalidated", addr, FALSE, "nil")),
             addr, SubnetOf(addr), invalidatePrefix)

\* switch addrEndpoint.ConfigType(): what NDP holds for a SLAAC address goes.
cleanupByConfigType(s1, addr, configType, allowSLAACInvalidation) ==
    IF configType = "slaac"
    THEN cleanupSLAACAddrResourcesAndNotify(s1, addr, allowSLAACInvalidation)
    ELSE IF configType = "slaacTemp"
    THEN cleanupTempSLAACAddrResourcesAndNotify(s1, addr, allowSLAACInvalidation)
    ELSE s1

\* The address leaves the address table.
dropAddress(s2, addr) ==
    IF ~Ok(s2) THEN s2
    ELSE [s2 EXCEPT !.addrs = Del(@, addr), !.ret = FALSE]

\* endpoint.removePermanentEndpointLocked(addressEndpoint, allowSLAACInvalidation):
\* stops DAD on the address, lets NDP clean up what SLAAC holds for it, and
\* takes it out of the address table.  ret: err != nil.
removePermanentEndpointLocked(s, addr, allowSLAACInvalidation) ==
    IF ~Ok(s) THEN s
    ELSE IF ~Has(s.addrs, addr) THEN [s EXCEPT !.ret = TRUE]
    ELSE dropAddress(cleanupByConfigType(stopDuplicateAddressDetection(s, addr), addr,
                                         s.addrs[addr].configType,
                                         allowSLAACInvalidation),
                     addr)

\* if addressEndpoint := state.stableAddr.addressEndpoint; addressEndpoint != nil
removeStableAddr(s1, addressEndpoint) ==
    IF ~Ok(s1) \/ addressEndpoint = NilAddr THEN s1
    ELSE PanicOnError(removePermanentEndpointLocked(s1, addressEndpoint, FALSE),
                      "ndp: error removing stable SLAAC address")

\* invalidateSLAACPrefix(prefix, state): state is the caller's copy.
invalidateSLAACPrefix(s, prefix, state) ==
    IF ~Ok(s) THEN s
    ELSE removeStableAddr(cleanupSLAACPrefixResources(s, prefix, state),
                          state.stableAddr.addressEndpoint)

\* endpoint.addAndAcquirePermanentAddressLocked: the address enters the table
\* as PermanentTentative and DAD starts on it.  ret: err != nil.
addAndAcquirePermanentAddressLocked(s, addr, configType, deprecated) ==
    IF ~Ok(s) THEN s
    ELSE IF Has(s.addrs, addr) THEN [s EXCEPT !.ret = TRUE]
    ELSE LET s1 == [s EXCEPT !.addrs = Put(@, addr, [kind |-> "PermanentTentative",
                                                     configType |-> configType,
                                                     deprecated |-> deprecated])]
         IN startDuplicateAddressDetection(s1, addr)

\* addAndAcquireSLAACAddr: ret is `addressEndpoint != nil`.
\* The address is added once the integrator has accepted it.
acquireAcceptedAddr(s1, addr, configType, deprecated, accept) ==
    IF ~accept THEN [s1 EXCEPT !.ret = FALSE]
    ELSE [PanicOnError(addAndAcquirePermanentAddressLocked(s1, addr, configType,
                                                           deprecated),
                       "ndp: error when adding SLAAC address")
             EXCEPT !.ret = TRUE]

\* An address that is added without asking the integrator.
addAndAcquireSLAACAddrUnasked(s, addr, configType, deprecated) ==
    [PanicOnError(addAndAcquirePermanentAddressLocked(s, addr, configType, deprecated),
                  "ndp: error when adding SLAAC address")
        EXCEPT !.ret = TRUE]

addAndAcquireSLAACAddr(s, addr, configType, deprecated) ==
    IF ~Ok(s) THEN s
    ELSE IF ~s.protocol.NDPDisp THEN [s EXCEPT !.ret = FALSE]
    ELSE LET accept == IF configType = "slaacTemp" THEN s.disp.temp ELSE s.disp.stable
         IN acquireAcceptedAddr(Notify(s, Ev("AutoGenAddress", addr, accept, "nil")),
                                addr, configType, deprecated, accept)

(***************************************************************************)
(* SLAAC address generation.  Operators that take `state *slaacPrefixState`*)
(* work on s.ps, the struct the caller holds for prefix s.psKey.           *)
(***************************************************************************)
WithPS(s, prefix, state) == [s EXCEPT !.psKey = prefix, !.ps = state]
DropPS(s) == [s EXCEPT !.psKey = NilAddr, !.ps = <<>>]
Return(s, v) == [s EXCEPT !.ret = v]

\* The `for i := 0; ; i++` loop of generateSLAACAddr: ret tells whether an
\* address was found; the address is StableAddr(prefix.p, dadCounter) of the
\* state the loop ends in.
DadCounterOf(ps) == (ps.generationAttempts + ps.stableAddr.localGenerationFailures) % Uint8
RECURSIVE generateSLAACAddrLoop(_, _, _)
generateSLAACAddrLoop(s, prefix, i) ==
    IF i = maxSLAACAddrLocalRegenAttempts THEN Return(s, FALSE)
    ELSE LET dadCounter == DadCounterOf(s.ps) IN
        IF ~s.protocol.OpaqueIIDOpts /\ dadCounter # 0 THEN Return(s, FALSE)
        ELSE IF ~s.protocol.OpaqueIIDOpts /\ ~s.protocol.LinkAddressValid THEN Return(s, FALSE)
        ELSE IF ~hasPermanentAddressRLocked(s, StableAddr(prefix.p, dadCounter))
            THEN Return(s, TRUE)
        ELSE generateSLAACAddrLoop(
                 [s EXCEPT !.ps.stableAddr.localGenerationFailures = (@ + 1) % Uint8],
                 prefix, i + 1)

\* The generated address is recorded in the prefix state when it was added.
recordStableAddr(s2, generatedAddr) ==
    IF ~Ok(s2) THEN s2
    ELSE IF s2.ret
    THEN Return([s2 EXCEPT !.ps.stableAddr.addressEndpoint = generatedAddr,
                           !.ps.generationAttempts = (@ + 1) % Uint8], TRUE)
    ELSE Return(s2, FALSE)

\* deprecated: time.Since(state.preferredUntil) >= 0
acquireStableAddr(s1, generatedAddr) ==
    IF ~s1.ret THEN s1
    ELSE recordStableAddr(addAndAcquireSLAACAddr(s1, generatedAddr, "slaac",
                                                 s1.now - s1.ps.preferredUntil >= 0),
                          generatedAddr)

\* The address the loop of generateSLAACAddr ended on.
acquireGeneratedAddr(s1, prefix) ==
    acquireStableAddr(s1, StableAddr(prefix.p, DadCounterOf(s1.ps)))

generateSLAACAddr(s, prefix) ==
    IF ~Ok(s) THEN s
    ELSE IF s.ps.stableAddr.addressEndpoint # NilAddr
        THEN Panic(s, "ndp: SLAAC prefix already has a permenant address")
    ELSE IF s.ps.generationAttempts = s.ps.maxGenerationAttempts THEN Return(s, FALSE)
    ELSE acquireGeneratedAddr(generateSLAACAddrLoop(s, prefix, 0), prefix)

\* header.GenerateTempIPv6SLAACAddr(history, stableAddr): every call advances
\* the history and yields the address of the next temporary IID.
\* The loop of generateTempSLAACAddr; ret tells whether an address was found,
\* which is then TempAddr(prefix.p, s.temporaryIIDHistory).
RECURSIVE generateTempSLAACAddrLoop(_, _, _)
generateTempSLAACAddrLoop(s, prefix, i) ==
    IF i = maxSLAACAddrLocalRegenAttempts THEN Return(s, FALSE)
    ELSE LET s1 == [s EXCEPT !.temporaryIIDHistory = @ + 1] IN
        IF ~hasPermanentAddressRLocked(s1, TempAddr(prefix.p, s1.temporaryIIDHistory))
        THEN Return(s1, TRUE)
        ELSE generateTempSLAACAddrLoop(s1, prefix, i + 1)

TempDepJob(addr) == JobId("tempDep", addr)
TempInvJob(addr) == JobId("tempInv", addr)
TempRegenJob(addr) == JobId("tempRegen", addr)

\* History: the deadlines a temporary address is created with.
GhostTempCreated(s, addr, pl, vl) ==
    IF ~Follows(s, "tempCreated") THEN s ELSE
    [s EXCEPT !.hist.tempCreated = Put(@, addr, [at |-> s.now, pl |-> pl, vl |-> vl])]

\* state := tempSLAACAddrState{...}; the three jobs are scheduled, the
\* attempt is counted and the address enters state.tempAddrs.
NewTempAddrState(generatedAddr, createdAt) ==
    [deprecationJob |-> TempDepJob(generatedAddr),
     invalidationJob |-> TempInvJob(generatedAddr),
     regenJob |-> TempRegenJob(generatedAddr),
     createdAt |-> createdAt,
     addressEndpoint |-> generatedAddr,
     regenerated |-> FALSE]

\* The regeneration scheduled at the deprecation deadline itself.
scheduleTempAddrJobsWithoutAdvance(s3, generatedAddr, pl, vl) ==
    Schedule(Schedule(Schedule(s3, TempDepJob(generatedAddr), pl),
                      TempInvJob(generatedAddr), vl),
             TempRegenJob(generatedAddr), pl)

scheduleTempAddrJobs(s3, generatedAddr, pl, vl) ==
    Schedule(Schedule(Schedule(s3, TempDepJob(generatedAddr), pl),
                      TempInvJob(generatedAddr), vl),
             TempRegenJob(generatedAddr), pl - s3.configs.RegenAdvanceDuration)

putTempAddr(s7, prefix, generatedAddr, state) ==
    SetTempAddrs(s7, prefix, Put(TempAddrsOf(s7, prefix), generatedAddr, state))

recordTempAddr(s3, prefix, generatedAddr, pl, vl) ==
    IF ~Ok(s3) THEN s3
    ELSE IF ~s3.ret THEN Return(s3, FALSE)
    ELSE Return(GhostTempCreated(
                    putTempAddr([scheduleTempAddrJobs(s3, generatedAddr, pl, vl)
                                    EXCEPT !.ps.generationAttempts = (@ + 1) % Uint8],
                                prefix, generatedAddr,
                                NewTempAddrState(generatedAddr, s3.now)),
                    generatedAddr, pl, vl), TRUE)

acquireTempAddr(s2, prefix, generatedAddr, pl, vl) ==
    recordTempAddr(addAndAcquireSLAACAddr(s2, generatedAddr, "slaacTemp", FALSE),
                   prefix, generatedAddr, pl, vl)

\* The address the loop of generateTempSLAACAddr ended on.
acquireGeneratedTempAddr(s2, prefix, pl, vl) ==
    IF ~s2.ret THEN s2
    ELSE acquireTempAddr(s2, prefix, TempAddr(prefix.p, s2.temporaryIIDHistory), pl, vl)

\* A generation that asks only for a preferred lifetime above 0.
generateTempSLAACAddrForAnyAdvance(s1, prefix) ==
    LET maxVl == s1.configs.MaxTempAddrValidLifetime
        prefixVL == s1.ps.validUntil - s1.now
        vl == IF s1.ps.validUntil # ZeroTime /\ maxVl > prefixVL THEN prefixVL ELSE maxVl
        maxPl == s1.configs.MaxTempAddrPreferredLifetime - s1.desyncFactor
        prefixPL == s1.ps.preferredUntil - s1.now
        pl == IF s1.ps.preferredUntil # ZeroTime /\ maxPl > prefixPL THEN prefixPL ELSE maxPl
    IN IF s1.ps.generationAttempts = s1.ps.maxGenerationAttempts THEN Return(s1, FALSE)
       ELSE IF s1.ps.stableAddr.addressEndpoint = NilAddr
           THEN Panic(s1, "nil pointer dereference")
       ELSE IF vl <= 0 THEN Return(s1, FALSE)
       ELSE IF pl <= 0 THEN Return(s1, FALSE)
       ELSE acquireGeneratedTempAddr(generateTempSLAACAddrLoop(s1, prefix, 0),
                                     prefix, pl, vl)

\* generateTempSLAACAddr once the attempts were reset: the lifetimes of the
\* new address and the checks on them.
generateTempSLAACAddrFor(s1, prefix) ==
    LET maxVl == s1.configs.MaxTempAddrValidLifetime
        prefixVL == s1.ps.validUntil - s1.now
        vl == IF s1.ps.validUntil # ZeroTime /\ maxVl > prefixVL THEN prefixVL ELSE maxVl
        maxPl == s1.configs.MaxTempAddrPreferredLifetime - s1.desyncFactor
        prefixPL == s1.ps.preferredUntil - s1.now
        pl == IF s1.ps.preferredUntil # ZeroTime /\ maxPl > prefixPL THEN prefixPL ELSE maxPl
    IN IF s1.ps.generationAttempts = s1.ps.maxGenerationAttempts THEN Return(s1, FALSE)
       ELSE IF s1.ps.stableAddr.addressEndpoint = NilAddr
           THEN Panic(s1, "nil pointer dereference")
       ELSE IF vl <= 0 THEN Return(s1, FALSE)
       ELSE IF pl <= s1.configs.RegenAdvanceDuration THEN Return(s1, FALSE)
       ELSE acquireGeneratedTempAddr(generateTempSLAACAddrLoop(s1, prefix, 0),
                                     prefix, pl, vl)

generateTempSLAACAddr(s, prefix, resetGenAttempts) ==
    IF ~Ok(s) THEN s
    ELSE IF ~s.configs.AutoGenTempGlobalAddresses \/ prefix = IPv6LinkLocalPrefix
        THEN Return(s, FALSE)
    ELSE generateTempSLAACAddrFor(
             IF resetGenAttempts
             THEN [s EXCEPT !.ps.generationAttempts = 0,
                            !.ps.maxGenerationAttempts =
                                (s.configs.AutoGenAddressConflictRetries + 1) % Uint8]
             ELSE s,
             prefix)

\* ndp.slaacPrefixes[prefix] = state
storePS(s1, prefix) ==
    IF ~Ok(s1) THEN s1
    ELSE DropPS([s1 EXCEPT !.slaacPrefixes = Put(@, prefix, s1.ps)])

\* regenerateTempSLAACAddr(prefix, resetGenAttempts).
regenerateTempSLAACAddr(s, prefix, resetGenAttempts) ==
    IF ~Ok(s) THEN s
    ELSE IF ~Has(s.slaacPrefixes, prefix)
        THEN Panic(s, "ndp: SLAAC prefix state not found to regenerate temporary address")
    ELSE storePS(generateTempSLAACAddr(WithPS(s, prefix, s.slaacPrefixes[prefix]),
                                       prefix, resetGenAttempts),
                 prefix)

\* if ndp.generateSLAACAddr(prefix, &state) { store } else invalidateSLAACPrefix
storeOrInvalidatePS(s1, prefix) ==
    IF ~Ok(s1) THEN s1
    ELSE IF s1.ret THEN storePS(s1, prefix)
    ELSE DropPS(invalidateSLAACPrefix(s1, prefix, s1.ps))

\* A regeneration that keeps the prefix when no address could be generated.
regenerateSLAACAddrKeepingPrefix(s, prefix) ==
    IF ~Ok(s) THEN s
    ELSE IF ~Has(s.slaacPrefixes, prefix)
        THEN Panic(s, "ndp: SLAAC prefix state not found to regenerate address")
    ELSE storePS(generateSLAACAddr(WithPS(s, prefix, s.slaacPrefixes[prefix]), prefix),
                 prefix)

\* regenerateSLAACAddr(prefix).
regenerateSLAACAddr(s, prefix) ==
    IF ~Ok(s) THEN s
    ELSE IF ~Has(s.slaacPrefixes, prefix)
        THEN Panic(s, "ndp: SLAAC prefix state not found to regenerate address")
    ELSE storeOrInvalidatePS(
             generateSLAACAddr(WithPS(s, prefix, s.slaacPrefixes[prefix]), prefix),
             prefix)

\* The endpoint's reaction to a DAD conflict on a tentative address: the
\* address is removed without invalidating its prefix, and an address is
\* generated in its place by regenerateSLAACAddr or regenerateTempSLAACAddr.
regenerateAfterConflict(s1, prefix, configType) ==
    IF ~Ok(s1) \/ s1.ret THEN s1
    ELSE IF configType = "slaac" THEN regenerateSLAACAddr(s1, prefix)
    ELSE IF configType = "slaacTemp" THEN regenerateTempSLAACAddr(s1, prefix, FALSE)
    ELSE s1
dupTentativeAddrDetected(s, addr) ==
    IF GetKind(s, addr) # "PermanentTentative" THEN s
    ELSE regenerateAfterConflict(removePermanentEndpointLocked(s, addr, FALSE),
                                 SubnetOf(addr), ConfigType(s, addr))

(***************************************************************************)
(* refreshSLAACPrefixLifetimes(prefix, prefixState, pl, vl), on s.ps.       *)
(***************************************************************************)
SlaacDepJob(prefix) == JobId("slaacDep", prefix)
SlaacInvJob(prefix) == JobId("slaacInv", prefix)

\* The preferred-lifetime part: the address is deprecated or not, ...
setPreferred(s, addressEndpoint, deprecated) ==
    IF deprecated THEN deprecateSLAACAddress(s, addressEndpoint)
    ELSE IF addressEndpoint = NilAddr THEN Panic(s, "nil pointer dereference")
    ELSE SetDeprecated(s, addressEndpoint, FALSE)

\* ... and the deprecation job is stopped and, for a finite non-zero
\* lifetime, scheduled again.
\* A refresh that counts the preferred lifetime from the end of the last one.
setPreferredUntilFromLast(s3, pl) ==
    [s3 EXCEPT !.ps.preferredUntil =
                   IF pl < NDPInfiniteLifetime
                   THEN (IF @ = ZeroTime THEN s3.now ELSE @) + pl ELSE ZeroTime]

setPreferredUntil(s3, pl) ==
    [s3 EXCEPT !.ps.preferredUntil =
                   IF pl < NDPInfiniteLifetime THEN s3.now + pl ELSE ZeroTime]

rescheduleDeprecation(s2, pl) ==
    setPreferredUntil(IF pl < NDPInfiniteLifetime /\ pl # 0
                      THEN Schedule(s2, s2.ps.deprecationJob, pl) ELSE s2, pl)

resetDeprecation(s1, pl) ==
    IF ~Ok(s1) THEN s1
    ELSE rescheduleDeprecation(Cancel(s1, s1.ps.deprecationJob), pl)

refreshPreferred(s, pl) ==
    resetDeprecation(setPreferred(s, s.ps.stableAddr.addressEndpoint, pl = 0), pl)

\* A refresh that takes every advertised valid lifetime.
EffectiveVlAsAdvertised(vl, rl) == vl
\* A refresh that ignores a valid lifetime of at most 2 hours that does not
\* lengthen the remaining one.
EffectiveVlIgnoringShort(vl, rl) ==
    IF vl > MinPrefixInformationValidLifetimeForUpdate \/ vl > rl THEN vl ELSE 0

\* A refresh that resets the valid lifetime to half of the 2 hours.
EffectiveVlResetToHalf(vl, rl) ==
    IF vl > MinPrefixInformationValidLifetimeForUpdate \/ vl > rl THEN vl
    ELSE IF rl > MinPrefixInformationValidLifetimeForUpdate
        THEN MinPrefixInformationValidLifetimeForUpdate \div 2
    ELSE 0

\* The valid lifetime the prefix is reset to (0: the advertised one is ignored),
\* given the remaining lifetime rl.
EffectiveVl(vl, rl) ==
    IF vl > MinPrefixInformationValidLifetimeForUpdate \/ vl > rl THEN vl
    ELSE IF rl > MinPrefixInformationValidLifetimeForUpdate
        THEN MinPrefixInformationValidLifetimeForUpdate
    ELSE 0

\* The valid-lifetime part (RFC 4862 section 5.5.3.e).
refreshValid(s, vl) ==
    IF ~Ok(s) THEN s
    ELSE IF vl >= NDPInfiniteLifetime
    THEN [Cancel(s, s.ps.invalidationJob) EXCEPT !.ps.validUntil = ZeroTime]
    ELSE LET rl == IF s.ps.validUntil = ZeroTime THEN NDPInfiniteLifetime
                   ELSE s.ps.validUntil - s.now
             effectiveVl == EffectiveVl(vl, rl)
         IN IF effectiveVl # 0
            THEN [Schedule(Cancel(s, s.ps.invalidationJob), s.ps.invalidationJob, effectiveVl)
                     EXCEPT !.ps.validUntil = s.now + effectiveVl]
            ELSE s

\* An iteration that gives the temporary address the valid lifetime of the
\* prefix whenever that is finite.
refreshTempAddrToPrefixLifetime(s, prefix, tempAddr, tempAddrState, regenForAddr, allAddressesRegenerated) ==
    LET maxValidUntil == tempAddrState.createdAt + s.configs.MaxTempAddrValidLifetime
        validUntil == IF s.ps.validUntil # ZeroTime THEN s.ps.validUntil ELSE maxValidUntil
        newValidLifetime == validUntil - s.now
        s1 == Schedule(Cancel(s, tempAddrState.invalidationJob),
                       tempAddrState.invalidationJob, newValidLifetime)
        maxPreferredUntil == tempAddrState.createdAt
                             + (s.configs.MaxTempAddrPreferredLifetime - s.desyncFactor)
        preferredUntil ==
            IF s.ps.preferredUntil # ZeroTime /\ maxPreferredUntil - s.ps.preferredUntil > 0
            THEN s.ps.preferredUntil ELSE maxPreferredUntil
        newPreferredLifetime == preferredUntil - s.now
        s2 == Cancel(s1, tempAddrState.deprecationJob)
        s3 == IF newPreferredLifetime <= 0
              THEN deprecateSLAACAddress(s2, tempAddrState.addressEndpoint)
              ELSE Schedule(SetDeprecated(s2, tempAddrState.addressEndpoint, FALSE),
                            tempAddrState.deprecationJob, newPreferredLifetime)
        s4 == Cancel(s3, tempAddrState.regenJob)
        regenNow == newPreferredLifetime <= s.configs.RegenAdvanceDuration
        s5 == IF tempAddrState.regenerated \/ regenNow THEN s4
              ELSE Schedule(s4, tempAddrState.regenJob,
                            newPreferredLifetime - s.configs.RegenAdvanceDuration)
    IN IF newValidLifetime <= 0
       THEN [s |-> invalidateTempSLAACAddr(s, prefix, tempAddr, tempAddrState),
             regenForAddr |-> regenForAddr,
             allAddressesRegenerated |-> allAddressesRegenerated]
       ELSE [s |-> s5,
             regenForAddr |-> IF ~tempAddrState.regenerated /\ regenNow
                              THEN tempAddr ELSE regenForAddr,
             allAddressesRegenerated |-> allAddressesRegenerated /\ tempAddrState.regenerated]

\* One iteration of the loop over prefixState.tempAddrs.  The result is
\* [s, regenForAddr, allAddressesRegenerated].
refreshTempAddr(s, prefix, tempAddr, tempAddrState, regenForAddr, allAddressesRegenerated) ==
    LET maxValidUntil == tempAddrState.createdAt + s.configs.MaxTempAddrValidLifetime
        validUntil == IF s.ps.validUntil # ZeroTime /\ maxValidUntil - s.ps.validUntil > 0
                      THEN s.ps.validUntil ELSE maxValidUntil
        newValidLifetime == validUntil - s.now
        s1 == Schedule(Cancel(s, tempAddrState.invalidationJob),
                       tempAddrState.invalidationJob, newValidLifetime)
        maxPreferredUntil == tempAddrState.createdAt
                             + (s.configs.MaxTempAddrPreferredLifetime - s.desyncFactor)
        preferredUntil ==
            IF s.ps.preferredUntil # ZeroTime /\ maxPreferredUntil - s.ps.preferredUntil > 0
            THEN s.ps.preferredUntil ELSE maxPreferredUntil
        newPreferredLifetime == preferredUntil - s.now
        s2 == Cancel(s1, tempAddrState.deprecationJob)
        s3 == IF newPreferredLifetime <= 0
              THEN deprecateSLAACAddress(s2, tempAddrState.addressEndpoint)
              ELSE Schedule(SetDeprecated(s2, tempAddrState.addressEndpoint, FALSE),
                            tempAddrState.deprecationJob, newPreferredLifetime)
        s4 == Cancel(s3, tempAddrState.regenJob)
        regenNow == newPreferredLifetime <= s.configs.RegenAdvanceDuration
        s5 == IF tempAddrState.regenerated \/ regenNow THEN s4
              ELSE Schedule(s4, tempAddrState.regenJob,
                            newPreferredLifetime - s.configs.RegenAdvanceDuration)
    IN IF newValidLifetime <= 0
       THEN [s |-> invalidateTempSLAACAddr(s, prefix, tempAddr, tempAddrState),
             regenForAddr |-> regenForAddr,
             allAddressesRegenerated |-> allAddressesRegenerated]
       ELSE [s |-> s5,
             regenForAddr |-> IF ~tempAddrState.regenerated /\ regenNow
                              THEN tempAddr ELSE regenForAddr,
             allAddressesRegenerated |-> allAddressesRegenerated /\ tempAddrState.regenerated]

RECURSIVE refreshTempAddrs(_, _, _, _, _)
\* A loop that generates the new address as soon as an address asks for it,
\* and again at its end.
refreshTempAddrsFromEach(r, prefix, order) ==
    refreshTempAddrs(IF Ok(r.s) /\ r.regenForAddr # NilAddr
                     THEN generateTempSLAACAddr(r.s, prefix, TRUE) ELSE r.s,
                     prefix, order, r.regenForAddr, r.allAddressesRegenerated)

\* The next iteration, from what the last one left.
refreshTempAddrsFrom(r, prefix, order) ==
    refreshTempAddrs(r.s, prefix, order, r.regenForAddr, r.allAddressesRegenerated)

refreshTempAddrs(s, prefix, order, regenForAddr, allAddressesRegenerated) ==
    IF order = <<>> \/ ~Ok(s)
    THEN [s |-> s, regenForAddr |-> regenForAddr,
          allAddressesRegenerated |-> allAddressesRegenerated]
    ELSE refreshTempAddrsFrom(
             IF Has(s.ps.tempAddrs, Head(order))
             THEN refreshTempAddr(s, prefix, Head(order), s.ps.tempAddrs[Head(order)],
                                  regenForAddr, allAddressesRegenerated)
             ELSE [s |-> s, regenForAddr |-> regenForAddr,
                   allAddressesRegenerated |-> allAddressesRegenerated],
             prefix, Tail(order))

\* A refresh that marks the address whether or not one was generated.
markRegeneratedAnyway(s1, prefix, regenForAddr, tempAddrsBefore) ==
    IF Ok(s1) /\ Has(tempAddrsBefore, regenForAddr)
    THEN SetTempAddrs(s1, prefix,
             Put(TempAddrsOf(s1, prefix), regenForAddr,
                 [tempAddrsBefore[regenForAddr] EXCEPT !.regenerated = TRUE]))
    ELSE s1

\* state.regenerated = true; prefixState.tempAddrs[regenForAddr] = state, with
\* the state read before the new address was generated.
markRegenerated(s1, prefix, regenForAddr, tempAddrsBefore) ==
    IF Ok(s1) /\ s1.ret /\ Has(tempAddrsBefore, regenForAddr)
    THEN SetTempAddrs(s1, prefix,
             Put(TempAddrsOf(s1, prefix), regenForAddr,
                 [tempAddrsBefore[regenForAddr] EXCEPT !.regenerated = TRUE]))
    ELSE s1

\* if len(regenForAddr.Address) != 0 || allAddressesRegenerated { ... }
regenerateIfNeeded(r, prefix) ==
    IF ~Ok(r.s) THEN r.s
    ELSE IF r.regenForAddr # NilAddr \/ r.allAddressesRegenerated
    THEN markRegenerated(generateTempSLAACAddr(r.s, prefix, TRUE), prefix,
                         r.regenForAddr, r.s.ps.tempAddrs)
    ELSE r.s

\* The part after the lifetimes of the prefix: the temporary addresses.
refreshTemps(s, prefix) ==
    regenerateIfNeeded(refreshTempAddrs(s, prefix,
                                        RangeOrder(DOMAIN s.ps.tempAddrs, s.desc),
                                        NilAddr, TRUE),
                       prefix)

\* if !stableAddrDeprecated ... kind != Permanent { return }
refreshTempsIfPermanent(s2, prefix) ==
    IF ~Ok(s2) THEN s2
    ELSE IF GetKind(s2, s2.ps.stableAddr.addressEndpoint) # "Permanent" THEN s2
    ELSE refreshTemps(s2, prefix)

refreshSLAACPrefixLifetimes(s, prefix, pl, vl) ==
    IF ~Ok(s) THEN s
    ELSE refreshTempsIfPermanent(refreshValid(refreshPreferred(s, pl), vl), prefix)

(***************************************************************************)
(* doSLAAC and handleAutonomousPrefixInformation.                          *)
(***************************************************************************)
NewSlaacPrefixState(s, prefix) ==
    [deprecationJob |-> SlaacDepJob(prefix),
     invalidationJob |-> SlaacInvJob(prefix),
     validUntil |-> ZeroTime,
     preferredUntil |-> ZeroTime,
     stableAddr |-> [addressEndpoint |-> NilAddr, localGenerationFailures |-> 0],
     tempAddrs |-> EmptyMap,
     generationAttempts |-> 0,
     maxGenerationAttempts |-> (s.configs.AutoGenAddressConflictRetries + 1) % Uint8]

\* The jobs of a new prefix and its first temporary address.
scheduleSlaacDeprecation(s1, pl) ==
    IF pl < NDPInfiniteLifetime /\ pl # 0
    THEN Schedule(s1, s1.ps.deprecationJob, pl) ELSE s1

scheduleSlaacInvalidation(s2, vl) ==
    IF vl < NDPInfiniteLifetime
    THEN [Schedule(s2, s2.ps.invalidationJob, vl) EXCEPT !.ps.validUntil = s2.now + vl]
    ELSE s2

generateTempIfPermanent(s3, prefix) ==
    IF GetKind(s3, s3.ps.stableAddr.addressEndpoint) = "Permanent"
    THEN generateTempSLAACAddr(s3, prefix, TRUE) ELSE s3

\* doSLAAC after generateSLAACAddr.
finishSLAAC(s1, prefix, pl, vl) ==
    IF ~Ok(s1) THEN s1
    ELSE IF ~s1.ret THEN DropPS(s1)
    ELSE storePS(generateTempIfPermanent(
                     scheduleSlaacInvalidation(scheduleSlaacDeprecation(s1, pl), vl),
                     prefix),
                 prefix)

\* doSLAAC for a valid lifetime other than 0.
startSLAAC(s, prefix, pl, vl) ==
    IF prefix.c # validPrefixLenForAutoGen THEN s
    ELSE finishSLAAC(
             generateSLAACAddr(
                 WithPS(s, prefix,
                        [NewSlaacPrefixState(s, prefix) EXCEPT !.preferredUntil =
                            IF pl < NDPInfiniteLifetime THEN s.now + pl ELSE ZeroTime]),
                 prefix),
             prefix, pl, vl)

\* SLAAC that does not look at the valid lifetime.
doSLAACWhateverLifetime(s, prefix, pl, vl) ==
    IF ~Ok(s) THEN s ELSE startSLAAC(s, prefix, pl, vl)

doSLAAC(s, prefix, pl, vl) ==
    IF ~Ok(s) THEN s
    ELSE IF vl = 0 THEN s
    ELSE startSLAAC(s, prefix, pl, vl)

\* A Prefix Information option.
PI(prefix, onLink, auto, pl, vl) ==
    [type |-> "PrefixInformation", prefix |-> prefix, OnLinkFlag |-> onLink,
     AutonomousAddressConfigurationFlag |-> auto, PreferredLifetime |-> pl,
     ValidLifetime |-> vl]

\* A handler that does not compare the two lifetimes.
handleAutonomousPrefixInformationAnyLifetimes(s, pi) ==
    LET vl == pi.ValidLifetime
        pl == pi.PreferredLifetime
        prefix == pi.prefix
    IN IF ~Ok(s) THEN s
       ELSE IF Has(s.slaacPrefixes, prefix)
       THEN storePS(refreshSLAACPrefixLifetimes(
                        WithPS(s, prefix, s.slaacPrefixes[prefix]), prefix, pl, vl),
                    prefix)
       ELSE IF ~s.configs.AutoGenGlobalAddresses THEN s
       ELSE doSLAAC(s, prefix, pl, vl)

handleAutonomousPrefixInformation(s, pi) ==
    LET vl == pi.ValidLifetime
        pl == pi.PreferredLifetime
        prefix == pi.prefix
    IN IF ~Ok(s) THEN s
       ELSE IF pl > vl THEN s
       ELSE IF Has(s.slaacPrefixes, prefix)
       THEN storePS(refreshSLAACPrefixLifetimes(
                        WithPS(s, prefix, s.slaacPrefixes[prefix]), prefix, pl, vl),
                    prefix)
       ELSE IF ~s.configs.AutoGenGlobalAddresses THEN s
       ELSE doSLAAC(s, prefix, pl, vl)

(***************************************************************************)
(* The body of the DAD job of addr.  The closure's `remaining` is kept in  *)
(* the DAD entry; sent tells whether WritePacketToRemote succeeds.         *)
(***************************************************************************)
\* A send that reports no error.
sendDADPacketDroppingError(s, addr, sent) ==
    LET s1 == Emit(s, Ev("NS", addr, sent, "nil"))
    IN [(IF sent THEN GhostNS(s1, addr) ELSE s1) EXCEPT !.ret = FALSE]

sendDADPacket(s, addr, sent) ==
    LET s1 == Emit(s, Ev("NS", addr, sent, "nil"))
    IN IF sent THEN [GhostNS(s1, addr) EXCEPT !.ret = FALSE] ELSE [s1 EXCEPT !.ret = TRUE]

\* A rescheduling that forgets to count the transmission.
dadScheduleNextWithoutDecrement(s, addr) ==
    Schedule(s, s.dad[addr].job, s.configs.RetransmitTimer)

\* `remaining--; state.job.Schedule(ndp.configs.RetransmitTimer)`.
dadScheduleNext(s, addr) ==
    Schedule([s EXCEPT !.dad[addr].remaining = @ - 1], s.dad[addr].job,
             s.configs.RetransmitTimer)

\* A completion that leaves the address tentative.
dadCompleteWithoutPromotion(s, addr, dadDone, err) ==
    Notify(GhostDadEnd([s EXCEPT !.dad = Del(@, addr)], addr,
                       IF dadDone THEN "resolved" ELSE "failed"),
           Ev("DADStatus", addr, dadDone, IF err THEN "err" ELSE "nil"))

\* A completion that generates a temporary address after every SLAAC address,
\* stable or temporary.
regenerateTempAfterDADOfAny(s4, addr, dadDone) ==
    IF dadDone /\ ConfigType(s4, addr) \in {"slaac", "slaacTemp"}
    THEN regenerateTempSLAACAddr(s4, SubnetOf(addr), TRUE)
    ELSE s4

\* DAD is done or the transmission failed: the end of the job's body.
\* if dadDone && addressEndpoint.ConfigType() == slaac { regenerateTempSLAACAddr }
regenerateTempAfterDAD(s4, addr, dadDone) ==
    IF dadDone /\ ConfigType(s4, addr) = "slaac"
    THEN regenerateTempSLAACAddr(s4, SubnetOf(addr), TRUE)
    ELSE s4

\* A completion that leaves the DAD entry in the table.
dadCompleteKeepingEntry(s, addr, dadDone, err) ==
    regenerateTempAfterDAD(
        Notify(GhostDadEnd(IF dadDone THEN SetKind(s, addr, "Permanent") ELSE s,
                           addr, IF dadDone THEN "resolved" ELSE "failed"),
               Ev("DADStatus", addr, dadDone, IF err THEN "err" ELSE "nil")),
        addr, dadDone)

dadComplete(s, addr, dadDone, err) ==
    regenerateTempAfterDAD(
        Notify(GhostDadEnd([(IF dadDone THEN SetKind(s, addr, "Permanent") ELSE s)
                               EXCEPT !.dad = Del(@, addr)],
                           addr, IF dadDone THEN "resolved" ELSE "failed"),
               Ev("DADStatus", addr, dadDone, IF err THEN "err" ELSE "nil")),
        addr, dadDone)

dadJobBody(s, addr, sent) ==
    IF ~Ok(s) THEN s
    ELSE IF ~Has(s.dad, addr)
        THEN Panic(s, "ndpdad: DAD timer fired but missing state")
    ELSE IF GetKind(s, addr) # "PermanentTentative"
        THEN Panic(s, "ndpdad: addr is no longer tentative")
    ELSE LET
        dadDone == s.dad[addr].remaining = 0
        s1 == IF ~dadDone THEN sendDADPacket(s, addr, sent) ELSE [s EXCEPT !.ret = FALSE]
        err == s1.ret
      IN IF ~dadDone /\ ~err THEN dadScheduleNext(s1, addr)
         ELSE dadComplete(s1, addr, dadDone, err)

(***************************************************************************)
(* Default routers and on-link prefixes.                                   *)
(***************************************************************************)
RtrInvJob(ip) == JobId("rtrInv", ip)
OnLinkInvJob(prefix) == JobId("onLinkInv", prefix)

\* An invalidation the integrator is not told of.
invalidateDefaultRouterSilently(s, ip) ==
    IF ~Has(s.defaultRouters, ip) THEN s
    ELSE [Cancel(s, s.defaultRouters[ip].invalidationJob)
             EXCEPT !.defaultRouters = Del(@, ip)]

invalidateDefaultRouter(s, ip) ==
    IF ~Ok(s) THEN s
    ELSE IF ~Has(s.defaultRouters, ip) THEN s
    ELSE LET s1 == Cancel(s, s.defaultRouters[ip].invalidationJob)
             s2 == [s1 EXCEPT !.defaultRouters = Del(@, ip)]
         IN Notify(s2, Ev("RouterInvalidated", ip, TRUE, "nil"))

\* A router that is remembered whatever the integrator answers.
rememberDefaultRouterUnasked(s, ip, rl) ==
    [Schedule(Notify(s, Ev("RouterDiscovered", ip, s.disp.router, "nil")),
              RtrInvJob(ip), rl)
        EXCEPT !.defaultRouters = Put(@, ip, [invalidationJob |-> RtrInvJob(ip)])]

rememberDefaultRouter(s, ip, rl) ==
    IF ~Ok(s) THEN s
    ELSE IF ~s.protocol.NDPDisp THEN s
    ELSE LET s1 == Notify(s, Ev("RouterDiscovered", ip, s.disp.router, "nil"))
             s2 == Schedule(s1, RtrInvJob(ip), rl)
         IN IF ~s.disp.router THEN s1
            ELSE [s2 EXCEPT !.defaultRouters = Put(@, ip, [invalidationJob |-> RtrInvJob(ip)])]

\* A prefix that is remembered whatever the integrator answers.
rememberOnLinkPrefixUnasked(s, prefix, l) ==
    [Notify(s, Ev("OnLinkPrefixDiscovered", prefix, s.disp.prefix, "nil"))
        EXCEPT !.onLinkPrefixes = Put(@, prefix, [invalidationJob |-> OnLinkInvJob(prefix)])]

rememberOnLinkPrefix(s, prefix, l) ==
    IF ~Ok(s) THEN s
    ELSE IF ~s.protocol.NDPDisp THEN s
    ELSE LET s1 == Notify(s, Ev("OnLinkPrefixDiscovered", prefix, s.disp.prefix, "nil"))
             s2 == IF l < NDPInfiniteLifetime THEN Schedule(s1, OnLinkInvJob(prefix), l) ELSE s1
         IN IF ~s.disp.prefix THEN s1
            ELSE [s2 EXCEPT !.onLinkPrefixes =
                                Put(@, prefix, [invalidationJob |-> OnLinkInvJob(prefix)])]

invalidateOnLinkPrefix(s, prefix) ==
    IF ~Ok(s) THEN s
    ELSE IF ~Has(s.onLinkPrefixes, prefix) THEN s
    ELSE LET s1 == Cancel(s, s.onLinkPrefixes[prefix].invalidationJob)
             s2 == [s1 EXCEPT !.onLinkPrefixes = Del(@, prefix)]
         IN Notify(s2, Ev("OnLinkPrefixInvalidated", prefix, TRUE, "nil"))

\* An on-link prefix table without a limit.
AlwaysRoomForPrefix(s) == TRUE
\* len(ndp.onLinkPrefixes) < MaxDiscoveredOnLinkPrefixes
HasRoomForPrefix(s) ==
    Cardinality(DOMAIN s.onLinkPrefixes) < MaxDiscoveredOnLinkPrefixes

\* History: the instant and the valid lifetime of the last Prefix Information
\* option with the on-link flag that was handled for the prefix.
GhostPI(s, pi) ==
    IF Follows(s, "pi")
    THEN [s EXCEPT !.hist.pi = Put(@, pi.prefix, [at |-> s.now, vl |-> pi.ValidLifetime])]
    ELSE s

\* A handler that leaves the job of a known prefix pending when the new valid
\* lifetime is infinite.
handleOnLinkPrefixInformationKeepingJob(s, pi) ==
    LET prefix == pi.prefix
        ok == Has(s.onLinkPrefixes, prefix)
        vl == pi.ValidLifetime
        s1 == Cancel(s, s.onLinkPrefixes[prefix].invalidationJob)
    IN IF ~Ok(s) THEN s
       ELSE IF ~ok /\ vl = 0 THEN s
       ELSE IF ~ok /\ vl # 0
       THEN IF s.configs.DiscoverOnLinkPrefixes /\ HasRoomForPrefix(s)
            THEN rememberOnLinkPrefix(s, prefix, vl) ELSE s
       ELSE IF ok /\ vl = 0 THEN invalidateOnLinkPrefix(s, prefix)
       ELSE IF vl < NDPInfiniteLifetime
       THEN Schedule(s1, s.onLinkPrefixes[prefix].invalidationJob, vl)
       ELSE s

handleOnLinkPrefixInformation(s, pi) ==
    LET prefix == pi.prefix
        ok == Has(s.onLinkPrefixes, prefix)
        vl == pi.ValidLifetime
        s1 == Cancel(s, s.onLinkPrefixes[prefix].invalidationJob)
    IN IF ~Ok(s) THEN s
       ELSE IF ~ok /\ vl = 0 THEN s
       ELSE IF ~ok /\ vl # 0
       THEN IF s.configs.DiscoverOnLinkPrefixes /\ HasRoomForPrefix(s)
            THEN rememberOnLinkPrefix(s, prefix, vl) ELSE s
       ELSE IF ok /\ vl = 0 THEN invalidateOnLinkPrefix(s, prefix)
       ELSE IF vl < NDPInfiniteLifetime
       THEN Schedule(s1, s.onLinkPrefixes[prefix].invalidationJob, vl)
       ELSE s1

(***************************************************************************)
(* handleRA(ip, ra): ra is [RouterLifetime, ManagedAddrConfFlag,           *)
(* OtherConfFlag, Options], Options a sequence of options.                 *)
(***************************************************************************)
DHCPv6NoConfiguration == 1
DHCPv6ManagedAddress == 2
DHCPv6OtherConfigurations == 3

RA(rl, m, o, opts) ==
    [RouterLifetime |-> rl, ManagedAddrConfFlag |-> m, OtherConfFlag |-> o, Options |-> opts]

\* An integrator told of the DHCPv6 configuration of every advertisement.
handleDHCPv6FlagsEveryTime(s, ra) ==
    LET configuration == IF ra.ManagedAddrConfFlag THEN DHCPv6ManagedAddress
                         ELSE IF ra.OtherConfFlag THEN DHCPv6OtherConfigurations
                         ELSE DHCPv6NoConfiguration
    IN IF s.protocol.NDPDisp
       THEN Notify([s EXCEPT !.dhcpv6Configuration = configuration],
                   Ev("DHCPv6Configuration", NilAddr, configuration, "nil"))
       ELSE s

\* The zero value of DHCPv6ConfigurationFromNDPRA, which has no name.
DHCPv6Unset == 0

\* The part on the DHCPv6 flags.
handleDHCPv6Flags(s, ra) ==
    LET configuration == IF ra.ManagedAddrConfFlag THEN DHCPv6ManagedAddress
                         ELSE IF ra.OtherConfFlag THEN DHCPv6OtherConfigurations
                         ELSE DHCPv6NoConfiguration
    IN IF s.protocol.NDPDisp /\ s.dhcpv6Configuration # configuration
       THEN Notify([s EXCEPT !.dhcpv6Configuration = configuration],
                   Ev("DHCPv6Configuration", NilAddr, configuration, "nil"))
       ELSE s

\* A table without a limit.
AlwaysRoom(s) == TRUE
\* len(ndp.defaultRouters) < MaxDiscoveredDefaultRouters
HasRoomForRouter(s) == Cardinality(DOMAIN s.defaultRouters) < MaxDiscoveredDefaultRouters

\* A known router whose new lifetime leaves its invalidation job as it is.
handleRouterLifetimeKeepingDeadline(s, ip, ra) ==
    LET ok == Has(s.defaultRouters, ip)
        rl == ra.RouterLifetime
    IN IF ~s.configs.DiscoverDefaultRouters THEN s
       ELSE IF ~ok /\ rl # 0
       THEN IF HasRoomForRouter(s) THEN rememberDefaultRouter(s, ip, rl) ELSE s
       ELSE IF ok /\ rl # 0 THEN s
       ELSE IF ok /\ rl = 0 THEN invalidateDefaultRouter(s, ip)
       ELSE s

\* The part on the router's lifetime.
handleRouterLifetime(s, ip, ra) ==
    LET ok == Has(s.defaultRouters, ip)
        rl == ra.RouterLifetime
    IN IF ~s.configs.DiscoverDefaultRouters THEN s
       ELSE IF ~ok /\ rl # 0
       THEN IF HasRoomForRouter(s) THEN rememberDefaultRouter(s, ip, rl) ELSE s
       ELSE IF ok /\ rl # 0
       THEN Schedule(Cancel(s, s.defaultRouters[ip].invalidationJob),
                     s.defaultRouters[ip].invalidationJob, rl)
       ELSE IF ok /\ rl = 0 THEN invalidateDefaultRouter(s, ip)
       ELSE s

\* if opt.AutonomousAddressConfigurationFlag() { ... }
handleAutonomousFlag(s1, opt) ==
    IF opt.AutonomousAddressConfigurationFlag
    THEN handleAutonomousPrefixInformation(s1, opt) ELSE s1

\* One option of the loop over ra.Options().
handleOption(s, opt) ==
    IF opt.type \in {"RecursiveDNSServer", "DNSSearchList"}
    THEN Notify(s, Ev(opt.type, NilAddr, TRUE, "nil"))
    ELSE IF opt.type # "PrefixInformation" THEN s
    ELSE IF IsV6LinkLocalAddress(opt.prefix) THEN s
    ELSE IF opt.prefix.c = 0 THEN s
    ELSE handleAutonomousFlag(
             IF opt.OnLinkFlag THEN handleOnLinkPrefixInformation(GhostPI(s, opt), opt)
             ELSE s, opt)

RECURSIVE handleOptions(_, _)
handleOptions(s, opts) ==
    IF opts = <<>> \/ ~Ok(s) THEN s
    ELSE handleOptions(handleOption(s, Head(opts)), Tail(opts))

\* A handler that does not look at HandleRAs and the forwarding mode.
handleRAWhateverMode(s, ip, ra) ==
    handleOptions(handleRouterLifetime(handleDHCPv6Flags(s, ra), ip, ra), ra.Options)

handleRA(s, ip, ra) ==
    IF ~Ok(s) THEN s
    ELSE IF ~s.configs.HandleRAs \/ s.protocol.Forwarding THEN s
    ELSE handleOptions(handleRouterLifetime(handleDHCPv6Flags(s, ra), ip, ra), ra.Options)

(***************************************************************************)
(* removeSLAACAddresses and cleanupState.                                  *)
(***************************************************************************)
RECURSIVE invalidateSLAACPrefixes(_, _, _)
\* for prefix, state := range ndp.slaacPrefixes { ... invalidateSLAACPrefix }
invalidateSLAACPrefixes(s, order, keepLinkLocal) ==
    IF order = <<>> \/ ~Ok(s) THEN s
    ELSE invalidateSLAACPrefixes(
             IF ~Has(s.slaacPrefixes, Head(order)) THEN s
             ELSE IF keepLinkLocal /\ Head(order) = IPv6LinkLocalPrefix THEN s
             ELSE invalidateSLAACPrefix(s, Head(order), s.slaacPrefixes[Head(order)]),
             Tail(order), keepLinkLocal)

\* if got := len(ndp.slaacPrefixes); got != linkLocalPrefixes { panic }
checkSLAACPrefixesLeft(s1, linkLocalPrefixes) ==
    IF ~Ok(s1) THEN s1
    ELSE IF Cardinality(DOMAIN s1.slaacPrefixes) # linkLocalPrefixes
    THEN Panic(s1, "ndp: still have non-linklocal SLAAC prefixes after cleaning up")
    ELSE s1

removeSLAACAddresses(s, keepLinkLocal) ==
    checkSLAACPrefixesLeft(
        invalidateSLAACPrefixes(s, RangeOrder(DOMAIN s.slaacPrefixes, s.desc),
                                keepLinkLocal),
        IF keepLinkLocal /\ Has(s.slaacPrefixes, IPv6LinkLocalPrefix) THEN 1 ELSE 0)

RECURSIVE invalidateOnLinkPrefixes(_, _)
invalidateOnLinkPrefixes(s, order) ==
    IF order = <<>> \/ ~Ok(s) THEN s
    ELSE invalidateOnLinkPrefixes(invalidateOnLinkPrefix(s, Head(order)), Tail(order))

RECURSIVE invalidateDefaultRouters(_, _)
invalidateDefaultRouters(s, order) ==
    IF order = <<>> \/ ~Ok(s) THEN s
    ELSE invalidateDefaultRouters(invalidateDefaultRouter(s, Head(order)), Tail(order))

\* The three parts of cleanupState after removeSLAACAddresses.
cleanupOnLinkPrefixes(s1) ==
    IF ~Ok(s1) THEN s1
    ELSE invalidateOnLinkPrefixes(s1, RangeOrder(DOMAIN s1.onLinkPrefixes, s1.desc))

cleanupDefaultRouters(s2) ==
    IF ~Ok(s2) THEN s2
    ELSE IF Cardinality(DOMAIN s2.onLinkPrefixes) # 0
    THEN Panic(s2, "ndp: still have discovered on-link prefixes after cleaning up")
    ELSE invalidateDefaultRouters(s2, RangeOrder(DOMAIN s2.defaultRouters, s2.desc))

\* A cleanup that leaves DHCPv6NoConfiguration behind.
cleanupDHCPv6ConfigurationToNoConfiguration(s3) ==
    IF ~Ok(s3) THEN s3
    ELSE IF Cardinality(DOMAIN s3.defaultRouters) # 0
    THEN Panic(s3, "ndp: still have discovered default routers after cleaning up")
    ELSE [s3 EXCEPT !.dhcpv6Configuration = DHCPv6NoConfiguration]

cleanupDHCPv6Configuration(s3) ==
    IF ~Ok(s3) THEN s3
    ELSE IF Cardinality(DOMAIN s3.defaultRouters) # 0
    THEN Panic(s3, "ndp: still have discovered default routers after cleaning up")
    ELSE [s3 EXCEPT !.dhcpv6Configuration = 0]

\* A cleanup that spares the link-local prefix also on a router.
cleanupStateAsHost(s, hostOnly) ==
    cleanupDHCPv6Configuration(
        cleanupDefaultRouters(cleanupOnLinkPrefixes(removeSLAACAddresses(s, TRUE))))

cleanupState(s, hostOnly) ==
    cleanupDHCPv6Configuration(
        cleanupDefaultRouters(cleanupOnLinkPrefixes(removeSLAACAddresses(s, hostOnly))))

(***************************************************************************)
(* Router Solicitation.  rtrSolicit is [job, remaining]: job tells whether *)
(* ndp.rtrSolicitJob is non-nil, remaining is the closure's counter.       *)
(***************************************************************************)
RsJob == JobId("rs", NilAddr)

\* History: the instant routers began to be solicited, and the instants a
\* Router Solicitation was written to the link since.
GhostRSStart(s) ==
    IF Follows(s, "rs") THEN [s EXCEPT !.hist.rs = [start |-> s.now, sent |-> <<>>]] ELSE s
GhostRS(s, sent) ==
    IF Follows(s, "rs") /\ sent THEN [s EXCEPT !.hist.rs.sent = Append(@, s.now)] ELSE s

\* delay is the value rand.Int63n(MaxRtrSolicitationDelay) yields.
startSolicitingRouters(s, delay) ==
    IF ~Ok(s) THEN s
    ELSE IF s.rtrSolicit.job THEN s
    ELSE IF s.configs.MaxRtrSolicitations = 0 THEN s
    ELSE [Schedule(GhostRSStart(s), RsJob,
                   IF s.configs.MaxRtrSolicitationDelay > 0 THEN delay ELSE 0)
             EXCEPT !.rtrSolicit = [job |-> TRUE, remaining |-> s.configs.MaxRtrSolicitations]]

\* The body of the job with `remaining` left as it is after a transmit.
rtrSolicitJobBodyUncounted(s, sent) ==
    LET s1 == GhostRS(Emit(s, Ev("RS", NilAddr, sent, "nil")), sent)
        remaining == IF sent THEN s.rtrSolicit.remaining ELSE 0
        s2 == [s1 EXCEPT !.rtrSolicit.remaining = remaining]
    IN IF ~Ok(s) THEN s
       ELSE IF remaining = 0 THEN s2
       ELSE Schedule(s2, RsJob, s.configs.RtrSolicitationInterval)

\* The body of the job; sent tells whether WritePacketToRemote succeeds.
rtrSolicitJobBody(s, sent) ==
    LET s1 == GhostRS(Emit(s, Ev("RS", NilAddr, sent, "nil")), sent)
        remaining == IF sent THEN s.rtrSolicit.remaining - 1 ELSE 0
        s2 == [s1 EXCEPT !.rtrSolicit.remaining = remaining]
    IN IF ~Ok(s) THEN s
       ELSE IF remaining = 0 THEN s2
       ELSE IF ~s.rtrSolicit.job THEN Panic(s2, "nil pointer dereference")
       ELSE Schedule(s2, RsJob, s.configs.RtrSolicitationInterval)

\* A stop that drops the handle and leaves the timer of the job running.
stopSolicitingRoutersKeepingTimer(s) ==
    IF ~Ok(s) THEN s
    ELSE IF ~s.rtrSolicit.job THEN s
    ELSE [s EXCEPT !.rtrSolicit = [job |-> FALSE, remaining |-> 0]]

stopSolicitingRouters(s) ==
    IF ~Ok(s) THEN s
    ELSE IF ~s.rtrSolicit.job THEN s
    ELSE [Cancel(s, RsJob) EXCEPT !.rtrSolicit = [job |-> FALSE, remaining |-> 0]]

(***************************************************************************)
(* The bodies of the jobs of a SLAAC prefix (doSLAAC) and of a temporary   *)
(* address (generateTempSLAACAddr).                                        *)
(***************************************************************************)
slaacDeprecationJobBody(s, prefix) ==
    IF ~Ok(s) THEN s
    ELSE IF ~Has(s.slaacPrefixes, prefix)
        THEN Panic(s, "ndp: must have a slaacPrefixes entry for the deprecated SLAAC prefix")
    ELSE deprecateSLAACAddress(s, s.slaacPrefixes[prefix].stableAddr.addressEndpoint)

slaacInvalidationJobBody(s, prefix) ==
    IF ~Ok(s) THEN s
    ELSE IF ~Has(s.slaacPrefixes, prefix)
        THEN Panic(s, "ndp: must have a slaacPrefixes entry for the invalidated SLAAC prefix")
    ELSE invalidateSLAACPrefix(s, prefix, s.slaacPrefixes[prefix])

tempDeprecationJobBody(s, generatedAddr) ==
    LET prefix == SubnetOf(generatedAddr) IN
    IF ~Ok(s) THEN s
    ELSE IF ~Has(s.slaacPrefixes, prefix)
        THEN Panic(s, "ndp: must have a slaacPrefixes entry to deprecate temporary address")
    ELSE IF ~Has(s.slaacPrefixes[prefix].tempAddrs, generatedAddr)
        THEN Panic(s, "ndp: must have a tempAddr entry to deprecate temporary address")
    ELSE deprecateSLAACAddress(s, s.slaacPrefixes[prefix].tempAddrs[generatedAddr].addressEndpoint)

tempInvalidationJobBody(s, generatedAddr) ==
    LET prefix == SubnetOf(generatedAddr) IN
    IF ~Ok(s) THEN s
    ELSE IF ~Has(s.slaacPrefixes, prefix)
        THEN Panic(s, "ndp: must have a slaacPrefixes entry to invalidate temporary address")
    ELSE IF ~Has(s.slaacPrefixes[prefix].tempAddrs, generatedAddr)
        THEN Panic(s, "ndp: must have a tempAddr entry to invalidate temporary address")
    ELSE invalidateTempSLAACAddr(s, prefix, generatedAddr,
                                 s.slaacPrefixes[prefix].tempAddrs[generatedAddr])

\* A job that leaves the flag as it found it.
storeNotRegenerated(s1, prefix, generatedAddr, tempAddrState) ==
    IF ~Ok(s1) THEN s1
    ELSE storePS(SetTempAddrs(s1, prefix,
                     Put(TempAddrsOf(s1, prefix), generatedAddr, tempAddrState)),
                 prefix)

\* tempAddrState.regenerated = <generated>; both states are stored back.
storeRegenerated(s1, prefix, generatedAddr, tempAddrState) ==
    IF ~Ok(s1) THEN s1
    ELSE storePS(SetTempAddrs(s1, prefix,
                     Put(TempAddrsOf(s1, prefix), generatedAddr,
                         [tempAddrState EXCEPT !.regenerated = s1.ret])),
                 prefix)

tempRegenJobBody(s, generatedAddr) ==
    LET prefix == SubnetOf(generatedAddr)
        tempAddrState == s.slaacPrefixes[prefix].tempAddrs[generatedAddr]
    IN
    IF ~Ok(s) THEN s
    ELSE IF ~Has(s.slaacPrefixes, prefix)
        THEN Panic(s, "ndp: must have a slaacPrefixes entry to regenerate temporary address")
    ELSE IF ~Has(s.slaacPrefixes[prefix].tempAddrs, generatedAddr)
        THEN Panic(s, "ndp: must have a tempAddr entry to regenerate temporary address")
    ELSE IF tempAddrState.regenerated THEN s
    ELSE storeRegenerated(
             generateTempSLAACAddr(WithPS(s, prefix, s.slaacPrefixes[prefix]), prefix, TRUE),
             prefix, generatedAddr, tempAddrState)

(***************************************************************************)
(* Actions: one per entry point of ndpState and per job body.              *)
(***************************************************************************)
Running == panic = NoPanic
\* The generator of temporary IIDs is followed for MaxTempIIDs addresses.
InBounds == temporaryIIDHistory' <= MaxTempIIDs

\* Time passes.  A job whose timer expired runs before the clock moves on:
\* the clock's unit is long against the wait for the endpoint's lock.
Tick ==
    /\ Running
    /\ now < MaxTime
    /\ \A id \in DOMAIN jobs : jobs[id].st # "fired"
    /\ now' = now + 1
    /\ jobs' = Expire(jobs, now + 1)
    /\ events' = <<>>
    /\ UNCHANGED <<configs, protocol, addrs, dad, defaultRouters, onLinkPrefixes,
                   slaacPrefixes, dhcpv6Configuration, rtrSolicit, temporaryIIDHistory,
                   desyncFactor, panic, hist, env>>

\* The endpoint adds a static address: it enters as PermanentTentative and
\* startDuplicateAddressDetection runs on it.
AddAddress(addr) ==
    /\ Running
    /\ ~Has(addrs, addr)
    /\ Commit(addAndAcquirePermanentAddressLocked(Begin(AcceptAll), addr, "static", FALSE))

\* The endpoint removes an address on its user's request.
RemoveAddress(addr, desc) ==
    /\ Running
    /\ Has(addrs, addr)
    /\ Commit(removePermanentEndpointLocked(BeginIter(AcceptAll, desc), addr, TRUE))

\* A neighbour answers the solicitation for a tentative address.
DupTentativeAddrDetected(addr, d) ==
    /\ Running
    /\ Has(addrs, addr)
    /\ addrs[addr].kind = "PermanentTentative"
    /\ Commit(dupTentativeAddrDetected(Begin(d), addr))
    /\ InBounds

StopDAD(addr) ==
    /\ Running
    /\ Commit(stopDuplicateAddressDetection(Begin(AcceptAll), addr))

RunDadJob(addr, sent, d) ==
    /\ Running
    /\ Fired(DadJob(addr))
    /\ Commit(dadJobBody(TakeJob(Begin(d), DadJob(addr)), addr, sent))
    /\ InBounds

\* History: a Router Advertisement of router ip arrives; the instant and the
\* lifetime of the last one of each router are kept (ra), and the episodes of
\* router 1 are followed.  With the router
\* unknown, a lifetime other than 0, discovery on, room in the table and an
\* integrator that accepts, it opens an episode of ip; the next one from ip
\* closes the episode if its lifetime is 0, else the episode is forgotten.
OpensEpisode(s, ip, ra) ==
    /\ s.configs.HandleRAs /\ ~s.protocol.Forwarding
    /\ s.configs.DiscoverDefaultRouters
    /\ s.protocol.NDPDisp /\ s.disp.router
    /\ ~Has(s.defaultRouters, ip)
    /\ ra.RouterLifetime # 0
GhostRA(s, ip, ra) ==
    [s EXCEPT !.hist.ep =
        IF ip # Router(1) \/ ~Follows(s, "ep") THEN @
        ELSE IF OpensEpisode(s, ip, ra)
        THEN Put(@, ip, [stage |-> IF HasRoomForRouter(s) THEN "open" ELSE "refused",
                         disc |-> 0, inv |-> 0])
        ELSE IF Has(@, ip) /\ @[ip].stage = "open" /\ ra.RouterLifetime = 0
        THEN [@ EXCEPT ![ip].stage = "closed"]
        ELSE Del(@, ip),
              !.hist.ra =
        IF ~Follows(s, "ra") THEN @
        ELSE Put(@, ip, [at |-> s.now, rl |-> ra.RouterLifetime])]

HandleRA(ip, ra, d, desc) ==
    /\ Running
    /\ Commit(handleRA(GhostRA(BeginIter(d, desc), ip, ra), ip, ra))
    /\ InBounds

RunRtrInvJob(ip) ==
    /\ Running
    /\ Fired(RtrInvJob(ip))
    /\ Commit(invalidateDefaultRouter(TakeJob(Begin(AcceptAll), RtrInvJob(ip)), ip))

RunOnLinkInvJob(prefix) ==
    /\ Running
    /\ Fired(OnLinkInvJob(prefix))
    /\ Commit(invalidateOnLinkPrefix(TakeJob(Begin(AcceptAll), OnLinkInvJob(prefix)), prefix))

RunSlaacDepJob(prefix) ==
    /\ Running
    /\ Fired(SlaacDepJob(prefix))
    /\ Commit(slaacDeprecationJobBody(TakeJob(Begin(AcceptAll), SlaacDepJob(prefix)), prefix))

RunSlaacInvJob(prefix, desc) ==
    /\ Running
    /\ Fired(SlaacInvJob(prefix))
    /\ Commit(slaacInvalidationJobBody(TakeJob(BeginIter(AcceptAll, desc), SlaacInvJob(prefix)),
                                       prefix))

RunTempDepJob(addr) ==
    /\ Running
    /\ Fired(TempDepJob(addr))
    /\ Commit(tempDeprecationJobBody(TakeJob(Begin(AcceptAll), TempDepJob(addr)), addr))

RunTempInvJob(addr) ==
    /\ Running
    /\ Fired(TempInvJob(addr))
    /\ Commit(tempInvalidationJobBody(TakeJob(Begin(AcceptAll), TempInvJob(addr)), addr))

RunTempRegenJob(addr, d) ==
    /\ Running
    /\ Fired(TempRegenJob(addr))
    /\ Commit(tempRegenJobBody(TakeJob(Begin(d), TempRegenJob(addr)), addr))
    /\ InBounds

CleanupState(hostOnly, desc) ==
    /\ Running
    /\ Commit(cleanupState(BeginIter(AcceptAll, desc), hostOnly))

\* The endpoint generates an address for a prefix itself: the link-local
\* address, when it is enabled.
DoSLAAC(prefix, pl, vl) ==
    /\ Running
    /\ ~Has(slaacPrefixes, prefix)
    /\ Commit(doSLAAC(Begin(AcceptAll), prefix, pl, vl))

\* The stack enters or leaves forwarding mode: ndp.ep.protocol.Forwarding().
SetForwarding(b) ==
    /\ Running
    /\ protocol.Forwarding # b
    /\ Commit([Begin(AcceptAll) EXCEPT !.protocol.Forwarding = b])

StartSolicitingRouters(delay) ==
    /\ Running
    /\ Commit(startSolicitingRouters(Begin(AcceptAll), delay))

StopSolicitingRouters ==
    /\ Running
    /\ Commit(stopSolicitingRouters(Begin(AcceptAll)))

RunRsJob(sent) ==
    /\ Running
    /\ Fired(RsJob)
    /\ Commit(rtrSolicitJobBody(TakeJob(Begin(AcceptAll), RsJob), sent))

(***************************************************************************)
(* Initial states.                                                         *)
(***************************************************************************)
\* DefaultNDPConfigurations, with the durations in the clock's unit.
BaseConfigs ==
    [DupAddrDetectTransmits |-> 1, RetransmitTimer |-> 1,
     MaxRtrSolicitations |-> 0, RtrSolicitationInterval |-> 1, MaxRtrSolicitationDelay |-> 1,
     HandleRAs |-> TRUE, DiscoverDefaultRouters |-> TRUE, DiscoverOnLinkPrefixes |-> TRUE,
     AutoGenGlobalAddresses |-> TRUE, AutoGenAddressConflictRetries |-> 0,
     AutoGenTempGlobalAddresses |-> FALSE, MaxTempAddrValidLifetime |-> NDPInfiniteLifetime,
     MaxTempAddrPreferredLifetime |-> NDPInfiniteLifetime, RegenAdvanceDuration |-> 0]
BaseProtocol ==
    [NDPDisp |-> TRUE, Forwarding |-> FALSE, OpaqueIIDOpts |-> TRUE, LinkAddressValid |-> TRUE]
\* env: the number of static addresses the user configures, of routers on the
\* link and of prefixes they advertise.
Env(a, r, p) == [addrs |-> a, routers |-> r, prefixes |-> p]

\* The state of a new ndpState on an endpoint with configuration c, protocol
\* options o, in surroundings l; the histories f are followed.
InitWith(c, o, l, f) ==
    /\ now = 0
    /\ configs = c
    /\ protocol = o
    /\ env = l
    /\ addrs = EmptyMap
    /\ dad = EmptyMap
    /\ defaultRouters = EmptyMap
    /\ onLinkPrefixes = EmptyMap
    /\ slaacPrefixes = EmptyMap
    /\ dhcpv6Configuration = 0
    /\ rtrSolicit = [job |-> FALSE, remaining |-> 0]
    /\ temporaryIIDHistory = 0
    /\ desyncFactor = 0
    /\ jobs = EmptyMap
    /\ events = <<>>
    /\ panic = NoPanic
    /\ hist = [follow |-> f, dadRun |-> EmptyMap, tempCreated |-> EmptyMap,
               phase |-> EmptyMap, ep |-> EmptyMap, late |-> NoJob,
               rs |-> [start |-> ZeroTime, sent |-> <<>>], ra |-> EmptyMap, pi |-> EmptyMap]

(***************************************************************************)
(* SpecDad: static addresses come and go, DAD and Router Solicitation run. *)
(***************************************************************************)
\* Either addresses come and go and nobody solicits routers (several addresses
\* under the default configuration, one under the others), or routers are
\* solicited while one address comes and goes.
DadConfigs ==
    {[BaseConfigs EXCEPT !.DupAddrDetectTransmits = n, !.RetransmitTimer = rt] :
        n \in 0..MaxDadTransmits, rt \in {1, 2}}
RsConfigs ==
    {[BaseConfigs EXCEPT !.MaxRtrSolicitations = r, !.MaxRtrSolicitationDelay = dl] :
        r \in 1..MaxRtrSolicit, dl \in {0, 2}}
\* An endpoint without an integrator.
NoDispatcher == [BaseProtocol EXCEPT !.NDPDisp = FALSE]

InitDad ==
    \/ InitWith(BaseConfigs, BaseProtocol, Env(NumStaticAddrs, 0, 0), {"dadRun"})
    \/ \E c \in DadConfigs : InitWith(c, BaseProtocol, Env(1, 0, 0), {"dadRun"})
    \/ \E n \in {0, MaxDadTransmits} :
           InitWith([BaseConfigs EXCEPT !.DupAddrDetectTransmits = n], NoDispatcher,
                    Env(1, 0, 0), {"dadRun"})
    \/ \E c \in RsConfigs : InitWith(c, BaseProtocol, Env(1, 0, 0), {"dadRun"})

UserAddrs == {StaticAddr(i) : i \in 1..env.addrs}
\* The user's addresses are interchangeable: of those that are not in the
\* address table, the lowest-numbered one is added next.
NextToAdd(a) == \A j \in 1..(a.c - 1) : Has(addrs, StaticAddr(j))

NextDad ==
    \/ Tick
    \/ \E a \in UserAddrs : NextToAdd(a) /\ AddAddress(a)
    \/ \E a \in UserAddrs : RemoveAddress(a, FALSE)
    \/ \E a \in UserAddrs : StopDAD(a)
    \/ \E a \in UserAddrs, sent \in BOOLEAN : RunDadJob(a, sent, AcceptAll)
    \/ \E delay \in 0..1 : StartSolicitingRouters(delay)
    \/ StopSolicitingRouters
    \/ \E sent \in BOOLEAN : RunRsJob(sent)

SpecDad == InitDad /\ [][NextDad]_vars

(***************************************************************************)
(* Properties of Duplicate Address Detection and Router Solicitation,      *)
(* under SpecDad.                                                          *)
(***************************************************************************)
DadRuns == DOMAIN hist.dadRun
\* The DADStatus callbacks of the last step for address a.
DadStatusOf(evs, a) == SelectSeq(evs, LAMBDA e : e.type = "DADStatus" /\ e.key = a)
NSOf(evs, a) == SelectSeq(evs, LAMBDA e : e.type = "NS" /\ e.key = a)
Told(n) == IF protocol.NDPDisp THEN n ELSE 0

\* C4: with DupAddrDetectTransmits = N > 0, a DAD run that is neither stopped
\* nor hit by a transmit error sends its Neighbor Solicitations RetransmitTimer
\* apart, the first at the start; it resolves exactly one RetransmitTimer after
\* the N-th: only then is the address Permanent, its DAD entry gone and
\* DADStatus(addr, true, nil) told once; no Neighbor Solicitation follows.
C4_DadResolvesAfterNTransmits ==
    \A a \in DadRuns :
        LET r == hist.dadRun[a]
            N == configs.DupAddrDetectTransmits
            T == configs.RetransmitTimer
        IN N > 0 =>
            /\ r.ns <= N
            /\ r.ns > 0 => r.lastNS = r.start + (r.ns - 1) * T
            /\ r.outcome = "running" =>
                /\ Has(dad, a) /\ dad[a].remaining = N - r.ns
                /\ Has(addrs, a) /\ addrs[a].kind = "PermanentTentative"
                /\ r.status = 0
            /\ r.outcome = "resolved" =>
                /\ r.ns = N
                /\ r.end = r.start + N * T
                /\ ~Has(dad, a) /\ ~Has(jobs, DadJob(a))
                /\ Has(addrs, a) => addrs[a].kind = "Permanent"
                /\ r.status = Told(1)
                /\ DadStatusOf(events, a) \in {<<>>, <<Ev("DADStatus", a, TRUE, "nil")>>}
C4_Witness ==
    \E a \in DadRuns :
        /\ configs.DupAddrDetectTransmits = MaxDadTransmits
        /\ hist.dadRun[a].outcome = "resolved"
        /\ hist.dadRun[a].ns = MaxDadTransmits
        /\ DadStatusOf(events, a) = <<Ev("DADStatus", a, TRUE, "nil")>>

\* C5 as stated: unless DupAddrDetectTransmits = 0, every PermanentTentative
\* address has a DAD entry.
C5_TentativeHasDadEntry ==
    configs.DupAddrDetectTransmits # 0 =>
        \A a \in DOMAIN addrs : addrs[a].kind = "PermanentTentative" => Has(dad, a)
\* C5, amended: every DAD entry belongs to a PermanentTentative address, and a
\* PermanentTentative address has a DAD entry unless its DAD was stopped or
\* ended on a transmit error.
C5_TentativeHasDadEntryUnlessEnded ==
    /\ \A a \in DOMAIN dad : Has(addrs, a) /\ addrs[a].kind = "PermanentTentative"
    /\ \A a \in DOMAIN addrs :
           addrs[a].kind = "PermanentTentative" /\ ~Has(dad, a) =>
               Has(hist.dadRun, a) /\ hist.dadRun[a].outcome \in {"stopped", "failed"}
C5_Witness ==
    \E a \in DOMAIN addrs :
        /\ addrs[a].kind = "PermanentTentative" /\ ~Has(dad, a)
        /\ hist.dadRun[a].outcome = "failed"

\* The state stopDuplicateAddressDetection(a) would leave, without the frame.
AfterStop(a) == stopDuplicateAddressDetection(St, a)
\* This step stops the running DAD of a.
StopsDad(a) ==
    /\ Has(hist.dadRun, a) /\ hist.dadRun[a].outcome = "running"
    /\ Has(hist'.dadRun, a) /\ hist'.dadRun[a].outcome = "stopped"
\* Nothing of a's DAD run happens in this step.
DadQuiet(a) ==
    /\ hist'.dadRun[a] = hist.dadRun[a]
    /\ NSOf(events', a) = <<>>
    /\ DadStatusOf(events', a) = <<>>
    /\ ~Has(dad', a)
    /\ Has(addrs, a) /\ Has(addrs', a) => addrs'[a].kind = addrs[a].kind

\* C6: stopDuplicateAddressDetection(addr) on an address with a DAD entry
\* removes the entry and tells DADStatus(addr, false, nil) exactly once;
\* afterwards the job of that run does nothing any more (no Neighbor
\* Solicitation, no promotion, no second DADStatus), also when its timer had
\* expired before the stop; without a DAD entry the call changes nothing.
C6_StopStep ==
    \A a \in DOMAIN hist.dadRun :
        /\ StopsDad(a) =>
            /\ Has(dad, a) /\ ~Has(dad', a)
            /\ ~Has(jobs', DadJob(a))
            /\ DadStatusOf(events', a) =
                   IF protocol.NDPDisp THEN <<Ev("DADStatus", a, FALSE, "nil")>> ELSE <<>>
            /\ NSOf(events', a) = <<>>
            /\ hist'.dadRun[a].status = Told(1)
        /\ hist.dadRun[a].outcome = "stopped" /\ Has(hist'.dadRun, a)
           /\ hist'.dadRun[a].outcome = "stopped" => DadQuiet(a)
C6_Stopped ==
    /\ \A a \in DOMAIN hist.dadRun :
           hist.dadRun[a].outcome = "stopped" =>
               /\ ~Has(dad, a) /\ ~Has(jobs, DadJob(a))
               /\ hist.dadRun[a].status = Told(1)
               /\ Has(addrs, a) => addrs[a].kind = "PermanentTentative"
    /\ \A a \in UserAddrs : ~Has(dad, a) => AfterStop(a) = St
    /\ panic = NoPanic
C6_StopDadEndsTheRun == []C6_Stopped /\ [][C6_StopStep]_vars
\* A run was stopped when its timer had expired and its job waited for the lock.
C6_Witness ==
    \E a \in DOMAIN hist.dadRun :
        /\ hist.dadRun[a].outcome = "stopped"
        /\ hist.dadRun[a].jobAtEnd = "fired"
        /\ hist.dadRun[a].ns > 0
        /\ Has(addrs, a)

\* This step's Neighbor Solicitation for a was not sent.
NSFailed(a) == \E i \in 1..Len(events') : events'[i] = Ev("NS", a, FALSE, "nil")
RSFailed == \E i \in 1..Len(events') : events'[i] = Ev("RS", NilAddr, FALSE, "nil")

\* C7: a failed Neighbor Solicitation transmit ends the DAD run: the DAD entry
\* is removed, the address stays tentative, DADStatus(addr, false, err) is told
\* once and no further Neighbor Solicitation is scheduled; a failed Router
\* Solicitation transmit ends the burst: no further Router Solicitation is
\* scheduled.
C7_FailedStep ==
    /\ \A a \in DOMAIN hist.dadRun :
           NSFailed(a) =>
               /\ Has(dad, a) /\ ~Has(dad', a)
               /\ Has(addrs', a) /\ addrs'[a].kind = "PermanentTentative"
               /\ DadStatusOf(events', a) =
                      IF protocol.NDPDisp THEN <<Ev("DADStatus", a, FALSE, "err")>> ELSE <<>>
               /\ ~Has(jobs', DadJob(a))
               /\ hist'.dadRun[a].outcome = "failed"
               /\ hist'.dadRun[a].ns = hist.dadRun[a].ns
    /\ RSFailed => ~Has(jobs', RsJob) /\ rtrSolicit'.remaining = 0
C7_Failed ==
    /\ \A a \in DOMAIN hist.dadRun :
           hist.dadRun[a].outcome = "failed" =>
               /\ ~Has(dad, a) /\ ~Has(jobs, DadJob(a))
               /\ hist.dadRun[a].status = Told(1)
               /\ hist.dadRun[a].ns < configs.DupAddrDetectTransmits
               /\ Has(addrs, a) => addrs[a].kind = "PermanentTentative"
    /\ rtrSolicit.job /\ rtrSolicit.remaining = 0 => ~Has(jobs, RsJob)
C7_TransmitErrorEndsTheProcedure == []C7_Failed /\ [][C7_FailedStep]_vars
\* The second Neighbor Solicitation of a run failed.
C7_Witness ==
    \E a \in DOMAIN hist.dadRun :
        /\ hist.dadRun[a].outcome = "failed"
        /\ hist.dadRun[a].ns = 1
        /\ DadStatusOf(events, a) = <<Ev("DADStatus", a, FALSE, "err")>>

\* C8: with DupAddrDetectTransmits = 0, startDuplicateAddressDetection on a
\* tentative unicast address makes it Permanent within the call and tells
\* DADStatus(addr, true, nil) exactly once; there is no DAD entry, no job and
\* no Neighbor Solicitation.
C8_AfterStart(a) ==
    LET s == startDuplicateAddressDetection(
                 [St EXCEPT !.addrs = Put(@, a, [kind |-> "PermanentTentative",
                                                 configType |-> "static",
                                                 deprecated |-> FALSE])], a)
    IN /\ s.addrs[a].kind = "Permanent"
       /\ s.events = IF protocol.NDPDisp THEN <<Ev("DADStatus", a, TRUE, "nil")>> ELSE <<>>
       /\ s.dad = dad /\ ~Has(s.dad, a)
       /\ s.jobs = jobs /\ ~Has(s.jobs, DadJob(a))
       /\ s.panic = NoPanic /\ ~s.ret
C8_NoTransmitsResolvesAtOnce ==
    configs.DupAddrDetectTransmits = 0 =>
        /\ \A a \in UserAddrs \ DOMAIN addrs : C8_AfterStart(a)
        /\ \A a \in DOMAIN addrs :
               /\ addrs[a].kind = "Permanent"
               /\ ~Has(dad, a) /\ ~Has(jobs, DadJob(a))
               /\ hist.dadRun[a].outcome = "resolved"
               /\ hist.dadRun[a].end = hist.dadRun[a].start
               /\ hist.dadRun[a].ns = 0
               /\ hist.dadRun[a].status = Told(1)
C8_Witness ==
    /\ configs.DupAddrDetectTransmits = 0
    /\ \E a \in DOMAIN addrs :
           /\ addrs[a].kind = "Permanent"
           /\ events = <<Ev("DADStatus", a, TRUE, "nil")>>

(***************************************************************************)
(* SpecTables: Router Advertisements of the routers on the link arrive,    *)
(* invalidation jobs fire, the state is cleaned up.  The link has more     *)
(* routers, or more prefixes, than a table holds, or one of each; the      *)
(* router that advertises the prefixes is router 1, or no default router.  *)
(***************************************************************************)
Long == Horizon
ManyRouters == MaxDiscoveredDefaultRouters + 1
ManyPrefixes == MaxDiscoveredOnLinkPrefixes + 1
RoutersOnLink == {Router(i) : i \in 1..env.routers}
PrefixesOnLink == {Prefix(i, validPrefixLenForAutoGen) : i \in 1..env.prefixes}

\* Router 1 advertises any lifetime.  The other routers advertise lifetimes
\* that outlast the run, or 0; they are interchangeable, so of those the
\* lowest-numbered unknown one appears next and the highest-numbered known
\* one withdraws next.
RouterArrives(ip, rl) ==
    \/ ip = Router(1)
    \/ /\ rl \in {0, Long}
       /\ rl # 0 => \A j \in 2..(ip.c - 1) : Has(defaultRouters, Router(j))
       /\ rl = 0 => \A j \in (ip.c + 1)..env.routers : ~Has(defaultRouters, Router(j))
\* The same for the prefixes and their valid lifetimes.
PrefixArrives(prefix, vl) ==
    \/ prefix.p = 1
    \/ /\ vl \in {0, NDPInfiniteLifetime}
       /\ vl # 0 => \A j \in 2..(prefix.p - 1) :
                        Has(onLinkPrefixes, Prefix(j, validPrefixLenForAutoGen))
       /\ vl = 0 => \A j \in (prefix.p + 1)..env.prefixes :
                        ~Has(onLinkPrefixes, Prefix(j, validPrefixLenForAutoGen))

TablesConfigs == [BaseConfigs EXCEPT !.AutoGenGlobalAddresses = FALSE]
InitTables ==
    \/ \E l \in {Env(0, ManyRouters, 0), Env(0, 0, ManyPrefixes), Env(0, 1, 1)} :
           InitWith(TablesConfigs, BaseProtocol, l, {"phase", "ep"})
    \/ InitWith(TablesConfigs, NoDispatcher, Env(0, 1, 1), {"phase", "ep"})
    \/ \E b \in BOOLEAN :
           InitWith([TablesConfigs EXCEPT !.DiscoverDefaultRouters = b,
                                          !.DiscoverOnLinkPrefixes = ~b],
                    BaseProtocol, Env(0, 1, 1), {"phase", "ep"})

NextTables ==
    \/ Tick
    \/ \E ip \in RoutersOnLink, rl \in {0, 1, Long}, accept \in BOOLEAN :
           /\ RouterArrives(ip, rl)
           /\ HandleRA(ip, RA(rl, FALSE, FALSE, <<>>),
                       [AcceptAll EXCEPT !.router = accept], FALSE)
    \/ \E prefix \in PrefixesOnLink, vl \in {0, 1, NDPInfiniteLifetime}, rl \in {0, 1},
          accept \in BOOLEAN :
           /\ rl # 0 => Router(1) \in RoutersOnLink
           /\ PrefixArrives(prefix, vl)
           /\ HandleRA(Router(1), RA(rl, FALSE, FALSE, <<PI(prefix, TRUE, FALSE, vl, vl)>>),
                       [AcceptAll EXCEPT !.prefix = accept], FALSE)
    \/ \E ip \in RoutersOnLink : RunRtrInvJob(ip)
    \/ \E prefix \in PrefixesOnLink : RunOnLinkInvJob(prefix)
    \/ \E hostOnly \in BOOLEAN, desc \in BOOLEAN : CleanupState(hostOnly, desc)

SpecTables == InitTables /\ [][NextTables]_vars

\* C1: after any sequence of Router Advertisements, firings of invalidation
\* jobs and cleanups, the default-router table holds at most
\* MaxDiscoveredDefaultRouters routers and the on-link prefix table at most
\* MaxDiscoveredOnLinkPrefixes prefixes.
C1_TablesWithinTheirCaps ==
    /\ Cardinality(DOMAIN defaultRouters) <= MaxDiscoveredDefaultRouters
    /\ Cardinality(DOMAIN onLinkPrefixes) <= MaxDiscoveredOnLinkPrefixes
\* The table is full and the advertisement of one more router was ignored.
C1_Witness ==
    /\ Cardinality(DOMAIN defaultRouters) = MaxDiscoveredDefaultRouters
    /\ Has(hist.ep, Router(1)) /\ hist.ep[Router(1)].stage = "refused"
    /\ ~Has(defaultRouters, Router(1))
    /\ events = <<>>

\* C2: for every router and every on-link prefix, each Invalidated callback
\* comes after a Discovered callback on the same key that the integrator
\* accepted, with no other Invalidated on the key in between, and none is
\* made for a key that is not remembered: the last callback on a key is an
\* accepted Discovered exactly while the key is in its table, and each
\* Invalidated of a step finds its key in that phase.
TableKeys == DOMAIN defaultRouters \cup DOMAIN onLinkPrefixes
RECURSIVE CausalOrder(_, _)
CausalOrder(es, ph) ==
    \/ es = <<>>
    \/ LET e == Head(es)
           old == IF Has(ph, e.key) THEN ph[e.key] ELSE "none"
       IN /\ e.type \in {"RouterInvalidated", "OnLinkPrefixInvalidated"}
                => old = "discovered"
          /\ CausalOrder(Tail(es), Put(ph, e.key, PhaseAfter(e, old)))
C2_Remembered ==
    /\ \A k \in TableKeys : PhaseOf(hist, k) = "discovered"
    /\ \A k \in DOMAIN hist.phase :
           k.t \in {"router", "prefix"} /\ hist.phase[k] = "discovered" => k \in TableKeys
C2_Step == CausalOrder(events', hist.phase)
C2_InvalidatedFollowsDiscovered == []C2_Remembered /\ [][C2_Step]_vars
\* A router that was discovered earlier has just been invalidated.
C2_Witness ==
    /\ events = <<Ev("RouterInvalidated", Router(1), TRUE, "nil")>>
    /\ PhaseOf(hist, Router(1)) = "invalidated"
    /\ now > 0
    /\ ~Has(defaultRouters, Router(1))

\* C10: a Router Advertisement with a lifetime other than 0 from an unknown
\* router (discovery on, room in the table, the integrator accepting) followed
\* by one with lifetime 0 from the same router makes exactly one Discovered
\* and exactly one Invalidated callback on the router, whether or not its
\* invalidation job fired in between, and leaves the router out of the table.
C10_Episode(ip) ==
    LET e == hist.ep[ip] IN
    /\ e.stage = "open" =>
           /\ e.disc = 1
           /\ e.inv = (IF Has(defaultRouters, ip) THEN 0 ELSE 1)
    /\ e.stage = "closed" =>
           /\ e.disc = 1 /\ e.inv = 1
           /\ ~Has(defaultRouters, ip)
           /\ ~Has(jobs, RtrInvJob(ip))
C10_OneDiscoveredOneInvalidated == \A ip \in DOMAIN hist.ep : C10_Episode(ip)
\* The second advertisement has just invalidated the router.
C10_Witness ==
    /\ Has(hist.ep, Router(1)) /\ hist.ep[Router(1)].stage = "closed"
    /\ \E i \in 1..Len(events) : events[i] = Ev("RouterInvalidated", Router(1), TRUE, "nil")

(***************************************************************************)
(* SpecSlaac: Router Advertisements with an autonomous Prefix Information  *)
(* option for one prefix arrive; the jobs of the prefix, of its addresses  *)
(* and of their DAD fire; addresses are removed, DAD is stopped, the state *)
(* is cleaned up.  Durations are in hours.                                 *)
(***************************************************************************)
\* MinMaxTempAddrValidLifetime, and a MaxTempAddrPreferredLifetime between
\* MinMaxTempAddrPreferredLifetime and it.
SlaacConfigs ==
    {[BaseConfigs EXCEPT !.DupAddrDetectTransmits = n,
                         !.AutoGenTempGlobalAddresses = tmp,
                         !.MaxTempAddrValidLifetime = MinPrefixInformationValidLifetimeForUpdate,
                         !.MaxTempAddrPreferredLifetime = MinPrefixInformationValidLifetimeForUpdate,
                         !.RegenAdvanceDuration = adv] :
        n \in 0..1, tmp \in BOOLEAN, adv \in 0..1}
InitSlaac ==
    \E c \in SlaacConfigs : InitWith(c, BaseProtocol, Env(0, 1, 1), {"phase", "late"})

\* The preferred and valid lifetimes a prefix is advertised with: none, short,
\* beyond the run, infinite.
Lifetimes ==
    {<<0, 0>>, <<0, 1>>, <<1, 1>>, <<1, Long>>, <<Long, Long>>,
     <<0, NDPInfiniteLifetime>>, <<NDPInfiniteLifetime, NDPInfiniteLifetime>>}
\* The inputs that make a difference: the integrator's answer on an address
\* that can be generated, the order of a range over more than one entry.
Asked(d, prefix) ==
    /\ ~d.stable => ~Has(slaacPrefixes, prefix)
    /\ ~d.temp => configs.AutoGenTempGlobalAddresses
Ordered(desc) ==
    desc => \E prefix \in DOMAIN slaacPrefixes :
                Cardinality(DOMAIN slaacPrefixes[prefix].tempAddrs) > 1
\* The integrator accepts every address, no stable one, or no temporary one.
Dispatchers == {AcceptAll, [AcceptAll EXCEPT !.stable = FALSE],
                [AcceptAll EXCEPT !.temp = FALSE]}
JobsOf(role) == {id.key : id \in {j \in DOMAIN jobs : j.role = role}}

NextSlaac ==
    \/ Tick
    \/ \E prefix \in PrefixesOnLink, l \in Lifetimes, d \in Dispatchers, desc \in BOOLEAN :
           /\ Asked(d, prefix) /\ Ordered(desc)
           /\ HandleRA(Router(1),
                       RA(0, FALSE, FALSE, <<PI(prefix, FALSE, TRUE, l[1], l[2])>>),
                       d, desc)
    \/ \E a \in JobsOf("dad"), sent \in BOOLEAN, temp \in BOOLEAN :
           /\ ~temp => configs.AutoGenTempGlobalAddresses
           /\ RunDadJob(a, sent, [AcceptAll EXCEPT !.temp = temp])
    \/ \E prefix \in JobsOf("slaacDep") : RunSlaacDepJob(prefix)
    \/ \E prefix \in JobsOf("slaacInv"), desc \in BOOLEAN : RunSlaacInvJob(prefix, desc)
    \/ \E a \in JobsOf("tempDep") : RunTempDepJob(a)
    \/ \E a \in JobsOf("tempInv") : RunTempInvJob(a)
    \/ \E a \in JobsOf("tempRegen"), temp \in BOOLEAN :
           RunTempRegenJob(a, [AcceptAll EXCEPT !.temp = temp])
    \/ \E a \in DOMAIN addrs, desc \in BOOLEAN : Ordered(desc) /\ RemoveAddress(a, desc)
    \/ \E a \in DOMAIN dad : StopDAD(a)
    \/ \E desc \in BOOLEAN : Ordered(desc) /\ CleanupState(FALSE, desc)

SpecSlaac == InitSlaac /\ [][NextSlaac]_vars

\* C3: for every auto-generated address, stable or temporary, the integrator
\* is told AutoGenAddress before any AutoGenAddressDeprecated, and any
\* AutoGenAddressDeprecated before the AutoGenAddressInvalidated; after the
\* address was invalidated no AutoGenAddressDeprecated follows, and its
\* deprecation job is not scheduled any more.  (An address that is generated
\* again after its invalidation starts over.)
RECURSIVE AddrOrder(_, _)
AddrOrder(es, ph) ==
    \/ es = <<>>
    \/ LET e == Head(es)
           old == IF Has(ph, e.key) THEN ph[e.key] ELSE "none"
       IN /\ e.type \in {"AutoGenAddressDeprecated", "AutoGenAddressInvalidated"}
                => old \in {"generated", "deprecated"}
          /\ AddrOrder(Tail(es), Put(ph, e.key, PhaseAfter(e, old)))
DeprecationJobOf(a) ==
    IF a.t = "temp" THEN TempDepJob(a) ELSE SlaacDepJob(SubnetOf(a))
C3_Invalidated ==
    \A a \in DOMAIN hist.phase :
        a.t \in {"stable", "temp"} =>
            /\ hist.phase[a] = "invalidated" =>
                   ~Has(addrs, a) /\ ~Has(jobs, DeprecationJobOf(a))
            /\ hist.phase[a] \in {"generated", "deprecated"} => Has(addrs, a)
C3_Step == AddrOrder(events', hist.phase)
C3_GeneratedDeprecatedInvalidated == []C3_Invalidated /\ [][C3_Step]_vars
\* The deprecation job of a temporary address has fired; the address was
\* generated in an earlier step.
C3_Witness ==
    \E a \in DOMAIN addrs :
        /\ a.t = "temp"
        /\ events = <<Ev("AutoGenAddressDeprecated", a, FALSE, "nil")>>
        /\ hist.phase[a] = "deprecated"
        /\ now > 0

\* C9: every job is cancelled before the entry that owns it is deleted: a job
\* that is scheduled, or whose timer has expired, has its DAD entry, SLAAC
\* prefix entry or temporary-address entry; so no job body finds its state
\* missing, whatever the interleaving of Router Advertisements, stopDAD,
\* cleanupState, address removals and timers.
MissingState ==
    {"ndpdad: DAD timer fired but missing state",
     "ndp: must have a slaacPrefixes entry for the deprecated SLAAC prefix",
     "ndp: must have a slaacPrefixes entry for the invalidated SLAAC prefix",
     "ndp: must have a slaacPrefixes entry to deprecate temporary address",
     "ndp: must have a tempAddr entry to deprecate temporary address",
     "ndp: must have a slaacPrefixes entry to invalidate temporary address",
     "ndp: must have a tempAddr entry to invalidate temporary address",
     "ndp: must have a slaacPrefixes entry to regenerate temporary address",
     "ndp: must have a tempAddr entry to regenerate temporary address"}
HasOwner(id) ==
    CASE id.role = "dad" -> Has(dad, id.key)
      [] id.role \in {"slaacDep", "slaacInv"} -> Has(slaacPrefixes, id.key)
      [] id.role \in {"tempDep", "tempInv", "tempRegen"} ->
             /\ Has(slaacPrefixes, SubnetOf(id.key))
             /\ Has(slaacPrefixes[SubnetOf(id.key)].tempAddrs, id.key)
      [] OTHER -> TRUE
C9_NoJobWithoutItsEntry ==
    /\ \A id \in DOMAIN jobs : HasOwner(id)
    /\ panic \notin MissingState
\* A temporary address went while the timer of one of its jobs had expired:
\* the job was cancelled with the entry.
C9_Witness ==
    /\ hist.late.role \in {"tempDep", "tempInv", "tempRegen"}
    /\ ~HasOwner(hist.late)
    /\ ~Has(jobs, hist.late)
    /\ panic = NoPanic

(***************************************************************************)
(* What a Router Advertisement leaves alone.  AfterRA is the state record  *)
(* handleRA(ip, ra) ends in when it runs in the current state while the    *)
(* integrator answers d.                                                   *)
(***************************************************************************)
AfterRA(ip, ra, d) == handleRA(BeginIter(d, FALSE), ip, ra)
TypesOf(es) == {es[i].type : i \in 1..Len(es)}
RouterJobs(js) == [id \in {j \in DOMAIN js : j.role = "rtrInv"} |-> js[id]]

\* C11: with MaxDiscoveredDefaultRouters routers in the table, a Router
\* Advertisement with a lifetime other than 0 from a router that is not in
\* the table leaves the table and every job as they are and makes no
\* RouterDiscovered callback; and the same for a Prefix Information option
\* with the on-link flag for a prefix that is not in a full on-link table.
C11_FullRouterTable ==
    Cardinality(DOMAIN defaultRouters) = MaxDiscoveredDefaultRouters =>
        \A ip \in RoutersOnLink \ DOMAIN defaultRouters, rl \in {1, Long}, accept \in BOOLEAN :
            LET s == AfterRA(ip, RA(rl, FALSE, FALSE, <<>>), [AcceptAll EXCEPT !.router = accept])
            IN /\ s.defaultRouters = defaultRouters
               /\ s.jobs = jobs
               /\ "RouterDiscovered" \notin TypesOf(s.events)
C11_FullPrefixTable ==
    Cardinality(DOMAIN onLinkPrefixes) = MaxDiscoveredOnLinkPrefixes =>
        \A prefix \in PrefixesOnLink \ DOMAIN onLinkPrefixes, vl \in {1, NDPInfiniteLifetime},
           accept \in BOOLEAN :
            LET s == AfterRA(Router(1), RA(0, FALSE, FALSE, <<PI(prefix, TRUE, FALSE, vl, vl)>>),
                             [AcceptAll EXCEPT !.prefix = accept])
            IN /\ s.onLinkPrefixes = onLinkPrefixes
               /\ s.jobs = jobs
               /\ "OnLinkPrefixDiscovered" \notin TypesOf(s.events)
C11_FullTableIgnoresNewcomers == C11_FullRouterTable /\ C11_FullPrefixTable
\* Ten routers are remembered, each with its invalidation job, and the
\* advertisement of an eleventh has just been handled.
C11_Witness ==
    /\ DOMAIN defaultRouters = RoutersOnLink \ {Router(1)}
    /\ Cardinality(DOMAIN RouterJobs(jobs)) = MaxDiscoveredDefaultRouters
    /\ Has(hist.ep, Router(1)) /\ hist.ep[Router(1)].stage = "refused"
    /\ "RouterDiscovered" \notin TypesOf(events)

\* The state record s holds the program state of the current state, and no
\* callback was made and no packet sent on the way to it.
SameState(s) ==
    /\ s.now = now /\ s.configs = configs /\ s.protocol = protocol
    /\ s.addrs = addrs /\ s.dad = dad
    /\ s.defaultRouters = defaultRouters /\ s.onLinkPrefixes = onLinkPrefixes
    /\ s.slaacPrefixes = slaacPrefixes
    /\ s.dhcpv6Configuration = dhcpv6Configuration
    /\ s.rtrSolicit = rtrSolicit
    /\ s.temporaryIIDHistory = temporaryIIDHistory /\ s.desyncFactor = desyncFactor
    /\ s.jobs = jobs /\ s.panic = panic
    /\ s.events = <<>>
\* The loop of handleRA over the options, run on one option.
AfterOption(opt, d) == handleOptions(BeginIter(d, FALSE), <<opt>>)
GlobalPrefixes == {Prefix(i, validPrefixLenForAutoGen) : i \in 1..2}
Flags == {f \in BOOLEAN \X BOOLEAN : f[1] \/ f[2]}

\* C12: a Prefix Information option with valid lifetime 0, with the on-link
\* flag or the autonomous flag or both and any preferred lifetime, for a
\* prefix that is in neither the on-link table nor the SLAAC table, changes
\* no state, schedules no job and makes no callback.
C12_ZeroLifetimeForUnknownPrefix ==
    \A prefix \in GlobalPrefixes \ (DOMAIN onLinkPrefixes \cup DOMAIN slaacPrefixes),
       f \in Flags, pl \in {0, 1, NDPInfiniteLifetime}, d \in Dispatchers :
        SameState(AfterOption(PI(prefix, f[1], f[2], pl, 0), d))
\* Prefix 2 is unknown while prefix 1 has its addresses and jobs, and an
\* option for prefix 2 with valid lifetime 0 leaves all of them as they are.
C12_Witness ==
    /\ Has(slaacPrefixes, Prefix(1, validPrefixLenForAutoGen))
    /\ ~Has(slaacPrefixes, Prefix(2, validPrefixLenForAutoGen))
    /\ Has(jobs, SlaacInvJob(Prefix(1, validPrefixLenForAutoGen)))
    /\ Cardinality(DOMAIN addrs) > 1
    /\ events = <<>>
    /\ SameState(AfterOption(PI(Prefix(2, validPrefixLenForAutoGen), TRUE, TRUE, 0, 0),
                             AcceptAll))

\* Lifetimes with the preferred one greater than the valid one.
Inverted == {l \in {0, 1, Long, NDPInfiniteLifetime} \X {0, 1, Long} : l[1] > l[2]}

\* C18: an autonomous Prefix Information option whose preferred lifetime is
\* greater than its valid lifetime is dropped: for an unknown prefix no entry
\* and no address is made, for a tracked prefix no lifetime, deprecation,
\* job deadline or temporary address changes, and nothing is called.
C18_InvertedLifetimesDropped ==
    \A prefix \in GlobalPrefixes, l \in Inverted, d \in Dispatchers :
        SameState(AfterOption(PI(prefix, FALSE, TRUE, l[1], l[2]), d))
\* Prefix 1 is tracked, with a temporary address and jobs of both, and an
\* option that prefers it for ever and invalidates it in a second is dropped;
\* prefix 2 is unknown.
C18_Witness ==
    /\ Has(slaacPrefixes, Prefix(1, validPrefixLenForAutoGen))
    /\ slaacPrefixes[Prefix(1, validPrefixLenForAutoGen)].tempAddrs # EmptyMap
    /\ Has(jobs, SlaacDepJob(Prefix(1, validPrefixLenForAutoGen)))
    /\ \E a \in DOMAIN addrs : Has(jobs, TempInvJob(a))
    /\ ~Has(slaacPrefixes, Prefix(2, validPrefixLenForAutoGen))
    /\ SameState(AfterOption(PI(Prefix(1, validPrefixLenForAutoGen), FALSE, TRUE,
                                NDPInfiniteLifetime, 1), AcceptAll))

\* The lifetimes a new prefix gets an address with: valid lifetime not 0.
Starting == {l \in Lifetimes : l[2] # 0}
\* C21 as stated: a stable address is added as deprecated if and only if
\* preferredUntil of its prefix is not zero and has come; an infinite
\* preferred lifetime gives an address that is not deprecated, a preferred
\* lifetime of 0 one that is.
C21_DeprecatedIffPreferredOver ==
    \A prefix \in GlobalPrefixes \ DOMAIN slaacPrefixes, l \in Starting :
        LET s == AfterOption(PI(prefix, FALSE, TRUE, l[1], l[2]), AcceptAll)
            a == s.slaacPrefixes[prefix].stableAddr.addressEndpoint
        IN Has(s.slaacPrefixes, prefix) =>
              /\ Has(s.addrs, a)
              /\ s.addrs[a].deprecated <=>
                     /\ s.slaacPrefixes[prefix].preferredUntil # ZeroTime
                     /\ s.now >= s.slaacPrefixes[prefix].preferredUntil
              /\ l[1] = NDPInfiniteLifetime => ~s.addrs[a].deprecated
              /\ l[1] = 0 => s.addrs[a].deprecated

\* The remaining valid lifetime of a tracked prefix.
RemainingLifetime(prefix) ==
    IF slaacPrefixes[prefix].validUntil = ZeroTime THEN NDPInfiniteLifetime
    ELSE slaacPrefixes[prefix].validUntil - now
Min(a, b) == IF a < b THEN a ELSE b
\* The prefix after a Prefix Information option refreshed it.
Refreshed(prefix, pl, vl) ==
    AfterOption(PI(prefix, FALSE, TRUE, pl, vl), AcceptAll).slaacPrefixes[prefix]
JobsAfter(prefix, pl, vl) == AfterOption(PI(prefix, FALSE, TRUE, pl, vl), AcceptAll).jobs
\* The deadline a job gets that is scheduled d from now.
DeadlineIn(d) == [st |-> "sched", at |-> Min(now + d, Horizon)]
ValidLifetimes == {0, 1, MinPrefixInformationValidLifetimeForUpdate, Long, NDPInfiniteLifetime}

\* C22: a refresh of a tracked prefix with valid lifetime vl, the remaining
\* lifetime being rl (infinite if validUntil is zero), makes validUntil zero
\* and cancels the invalidation if vl is infinite, now + vl if vl > 2 h or
\* vl > rl, now + 2 h if neither holds and rl > 2 h, and leaves it otherwise;
\* so a vl of at most 2 h never leaves less than min(rl, 2 h).
C22_ValidLifetimeOnRefresh ==
    \A prefix \in DOMAIN slaacPrefixes, vl \in ValidLifetimes :
        LET rl == RemainingLifetime(prefix)
            after == Refreshed(prefix, 0, vl)
            twoHours == MinPrefixInformationValidLifetimeForUpdate
        IN /\ after.validUntil =
                 IF vl >= NDPInfiniteLifetime THEN ZeroTime
                 ELSE IF vl > twoHours \/ vl > rl THEN now + vl
                 ELSE IF rl > twoHours THEN now + twoHours
                 ELSE slaacPrefixes[prefix].validUntil
           /\ vl >= NDPInfiniteLifetime =>
                 ~Has(JobsAfter(prefix, 0, vl), SlaacInvJob(prefix))
           /\ vl <= twoHours /\ after.validUntil # ZeroTime =>
                 after.validUntil - now >= Min(rl, twoHours)
\* At time 0 a prefix that was valid for longer than 2 h has been refreshed
\* with preferred lifetime 0 and a shorter valid lifetime and is now valid
\* for 2 h.
C22_Witness ==
    /\ now = 0
    /\ \E prefix \in DOMAIN slaacPrefixes :
          /\ slaacPrefixes[prefix].validUntil = MinPrefixInformationValidLifetimeForUpdate
          /\ slaacPrefixes[prefix].preferredUntil = 0
          /\ Has(jobs, SlaacInvJob(prefix))
          /\ jobs[SlaacInvJob(prefix)] = DeadlineIn(MinPrefixInformationValidLifetimeForUpdate)
    /\ "AutoGenAddress" \notin TypesOf(events)

\* The tracked prefixes that are valid for 3 h more.
ValidFor3h == {prefix \in DOMAIN slaacPrefixes : slaacPrefixes[prefix].validUntil = now + 3}
\* C23 as stated: with validUntil 3 h away, a refresh with vl = 1 h leaves
\* validUntil and the deadline of the invalidation job as they are, and a
\* refresh with vl = 3 h makes the remaining valid lifetime 3 h.
C23_ShortLifetimeIgnored ==
    \A prefix \in ValidFor3h :
        /\ Refreshed(prefix, 1, 1).validUntil = now + 3
        /\ JobsAfter(prefix, 1, 1)[SlaacInvJob(prefix)] = jobs[SlaacInvJob(prefix)]
        /\ Refreshed(prefix, 3, 3).validUntil = now + 3
\* C23, amended: with validUntil 3 h away, a refresh with vl = 1 h resets the
\* remaining valid lifetime to 2 h, the invalidation job with it, and a
\* refresh with vl = 3 h makes the remaining valid lifetime 3 h.
C23_ShortLifetimeResetsTo2h ==
    \A prefix \in ValidFor3h :
        /\ Refreshed(prefix, 1, 1).validUntil = now + 2
        /\ JobsAfter(prefix, 1, 1)[SlaacInvJob(prefix)] = DeadlineIn(2)
        /\ Refreshed(prefix, 3, 3).validUntil = now + 3
        /\ JobsAfter(prefix, 3, 3)[SlaacInvJob(prefix)] = DeadlineIn(3)
\* At time 0 a prefix that was valid for longer has been refreshed with
\* pl = vl = 1 h and is valid for 2 h, its invalidation job due then.
C23_Witness ==
    /\ now = 0
    /\ \E prefix \in DOMAIN slaacPrefixes :
          /\ slaacPrefixes[prefix].validUntil = 2
          /\ slaacPrefixes[prefix].preferredUntil = 1
          /\ Has(jobs, SlaacInvJob(prefix))
          /\ jobs[SlaacInvJob(prefix)] = [st |-> "sched", at |-> 2]

\* The same option once more, right after s.
AgainOption(s, opt) == handleOptions([s EXCEPT !.events = <<>>], <<opt>>)
\* What a refresh settles of a prefix: the two deadlines and whether the
\* stable address is deprecated.
LifetimesIn(s, prefix) ==
    [validUntil |-> s.slaacPrefixes[prefix].validUntil,
     preferredUntil |-> s.slaacPrefixes[prefix].preferredUntil,
     deprecated |-> Deprecated(s, s.slaacPrefixes[prefix].stableAddr.addressEndpoint)]
Refreshes == {l \in ValidLifetimes \X ValidLifetimes : l[1] <= l[2]}
RefreshedTwice(prefix, l) ==
    LET opt == PI(prefix, FALSE, TRUE, l[1], l[2])
        once == AfterOption(opt, AcceptAll)
    IN /\ Ok(once) /\ Has(once.slaacPrefixes, prefix)
       /\ LET twice == AgainOption(once, opt)
          IN /\ Ok(twice) /\ Has(twice.slaacPrefixes, prefix)
             /\ LifetimesIn(twice, prefix) = LifetimesIn(once, prefix)

\* C24: for every tracked prefix and every pl <= vl, the same refresh applied
\* twice at the same instant leaves validUntil, preferredUntil and the
\* deprecated flag of the stable address as the first application left them.
C24_RefreshIsIdempotent ==
    \A prefix \in DOMAIN slaacPrefixes, l \in Refreshes : RefreshedTwice(prefix, l)
\* An hour after it was advertised for 3 h, a prefix has been refreshed with
\* pl = vl = 1 h: it is preferred for 1 h and valid for 2 h, and the same
\* refresh once more would leave that so.
C24_Witness ==
    /\ now = 1
    /\ events # <<>>
    /\ "AutoGenAddress" \notin TypesOf(events)
    /\ \E prefix \in DOMAIN slaacPrefixes :
          /\ slaacPrefixes[prefix].validUntil = 3
          /\ slaacPrefixes[prefix].preferredUntil = 2
          /\ RefreshedTwice(prefix, <<1, 1>>)
          /\ Refreshed(prefix, 1, 1).validUntil = 3

\* The addresses of a SLAAC prefix that duplicate address detection runs on.
InDAD(prefix) ==
    {a \in DOMAIN addrs : /\ addrs[a].configType \in {"slaac", "slaacTemp"}
                          /\ SubnetOf(a) = prefix
                          /\ addrs[a].kind = "PermanentTentative"
                          /\ Has(dad, a)}
\* C20 as stated: at any time, at most one address of a SLAAC prefix, the
\* stable one or a temporary one, undergoes duplicate address detection.
C20_OneInDADPerPrefix ==
    configs.DupAddrDetectTransmits > 0 =>
        \A prefix \in DOMAIN slaacPrefixes : Cardinality(InDAD(prefix)) <= 1

(***************************************************************************)
(* SpecVeto: router 1 advertises itself and one prefix, on-link and        *)
(* autonomous; the integrator refuses the router, the prefix, the stable   *)
(* address or the temporary address, or nothing; the jobs fire.            *)
(***************************************************************************)
VetoConfigs ==
    [BaseConfigs EXCEPT !.DupAddrDetectTransmits = 0,
                        !.AutoGenTempGlobalAddresses = TRUE,
                        !.MaxTempAddrValidLifetime = MinPrefixInformationValidLifetimeForUpdate,
                        !.MaxTempAddrPreferredLifetime = MinPrefixInformationValidLifetimeForUpdate]
InitVeto == InitWith(VetoConfigs, BaseProtocol, Env(0, 1, 1), {"phase"})
Vetoes ==
    {AcceptAll, [AcceptAll EXCEPT !.router = FALSE], [AcceptAll EXCEPT !.prefix = FALSE],
     [AcceptAll EXCEPT !.stable = FALSE], [AcceptAll EXCEPT !.temp = FALSE]}
NextVeto ==
    \/ Tick
    \/ \E prefix \in PrefixesOnLink, rl \in {0, 1}, l \in {<<0, 0>>, <<1, 1>>},
          d \in Vetoes :
           HandleRA(Router(1), RA(rl, FALSE, FALSE, <<PI(prefix, TRUE, TRUE, l[1], l[2])>>),
                    d, FALSE)
    \/ \E ip \in JobsOf("rtrInv") : RunRtrInvJob(ip)
    \/ \E prefix \in JobsOf("onLinkInv") : RunOnLinkInvJob(prefix)
    \/ \E prefix \in JobsOf("slaacDep") : RunSlaacDepJob(prefix)
    \/ \E prefix \in JobsOf("slaacInv") : RunSlaacInvJob(prefix, FALSE)
    \/ \E a \in JobsOf("tempDep") : RunTempDepJob(a)
    \/ \E a \in JobsOf("tempInv") : RunTempInvJob(a)
    \/ \E a \in JobsOf("tempRegen"), temp \in BOOLEAN :
           RunTempRegenJob(a, [AcceptAll EXCEPT !.temp = temp])
SpecVeto == InitVeto /\ [][NextVeto]_vars

\* C13: when the integrator answers false to RouterDiscovered,
\* OnLinkPrefixDiscovered or AutoGenAddress, nothing is remembered for the
\* router, prefix or address: it has no table entry (a refused stable address
\* leaves no SLAAC prefix entry), no job of it is scheduled, and no Invalidated
\* or Deprecated callback is made for it afterwards.
Refusable == {"RouterDiscovered", "OnLinkPrefixDiscovered", "AutoGenAddress"}
Accepted == {"discovered", "generated", "deprecated"}
JobsOfKey(k) ==
    CASE k.t = "router" -> {RtrInvJob(k)}
      [] k.t = "prefix" -> {OnLinkInvJob(k)}
      [] k.t = "stable" -> {DadJob(k), SlaacDepJob(SubnetOf(k)), SlaacInvJob(SubnetOf(k))}
      [] k.t = "temp" -> {DadJob(k), TempDepJob(k), TempInvJob(k), TempRegenJob(k)}
      [] OTHER -> {}
Remembered ==
    [jobs |-> jobs, defaultRouters |-> defaultRouters, onLinkPrefixes |-> onLinkPrefixes,
     addrs |-> addrs, dad |-> dad, slaacPrefixes |-> slaacPrefixes]
ForgottenIn(k, r) ==
    /\ JobsOfKey(k) \cap DOMAIN r.jobs = {}
    /\ CASE k.t = "router" -> ~Has(r.defaultRouters, k)
         [] k.t = "prefix" -> ~Has(r.onLinkPrefixes, k)
         [] k.t = "stable" ->
                ~Has(r.addrs, k) /\ ~Has(r.dad, k) /\ ~Has(r.slaacPrefixes, SubnetOf(k))
         [] k.t = "temp" ->
                /\ ~Has(r.addrs, k) /\ ~Has(r.dad, k)
                /\ Has(r.slaacPrefixes, SubnetOf(k)) =>
                       ~Has(r.slaacPrefixes[SubnetOf(k)].tempAddrs, k)
         [] OTHER -> TRUE
RECURSIVE OnlyAcceptedEnd(_, _)
OnlyAcceptedEnd(es, ph) ==
    \/ es = <<>>
    \/ LET e == Head(es)
           old == IF Has(ph, e.key) THEN ph[e.key] ELSE "none"
       IN /\ e.type \in {"RouterInvalidated", "OnLinkPrefixInvalidated",
                          "AutoGenAddressDeprecated", "AutoGenAddressInvalidated"}
                => old \in Accepted
          /\ OnlyAcceptedEnd(Tail(es), Put(ph, e.key, PhaseAfter(e, old)))
\* The keys of the run: the prefix has one stable address, StableAddr(1, 0).
VetoKeys ==
    RoutersOnLink \cup PrefixesOnLink
        \cup {StableAddr(1, 0)} \cup {TempAddr(1, n) : n \in 1..(MaxTempIIDs + 1)}
C13_NotAccepted ==
    \A k \in VetoKeys : PhaseOf(hist, k) \notin Accepted => ForgottenIn(k, Remembered)
C13_Step ==
    /\ \A i \in 1..Len(events') :
           events'[i].type \in Refusable /\ ~events'[i].a => ForgottenIn(events'[i].key, Remembered')
    /\ OnlyAcceptedEnd(events', hist.phase)
C13_RefusedIsForgotten == []C13_NotAccepted /\ [][C13_Step]_vars
\* The integrator has just refused the stable address of a prefix it had
\* accepted as on-link: the prefix is on-link and has no SLAAC entry.
C13_Witness ==
    \E i \in 1..Len(events) :
        /\ events[i] = Ev("AutoGenAddress", StableAddr(1, 0), FALSE, "nil")
        /\ slaacPrefixes = EmptyMap
        /\ Has(onLinkPrefixes, Prefix(1, validPrefixLenForAutoGen))
        /\ jobs # EmptyMap

(***************************************************************************)
(* SpecHost: a host that may turn router.  The endpoint generates its      *)
(* link-local address; router 1 advertises itself and one prefix, on-link  *)
(* and autonomous; the stack enters forwarding mode; the state is cleaned  *)
(* up; the jobs fire.  One endpoint is configured not to handle Router     *)
(* Advertisements.                                                         *)
(***************************************************************************)
HostConfigs == {[VetoConfigs EXCEPT !.HandleRAs = h] : h \in BOOLEAN}
InitHost == \E c \in HostConfigs : InitWith(c, BaseProtocol, Env(0, 1, 1), {"phase"})
NextHost ==
    \/ Tick
    \/ DoSLAAC(IPv6LinkLocalPrefix, NDPInfiniteLifetime, NDPInfiniteLifetime)
    \/ \E rl \in {0, 1}, l \in {<<0, 0>>, <<1, 1>>} :
           HandleRA(Router(1),
                    RA(rl, FALSE, FALSE, <<PI(Prefix(1, 64), TRUE, TRUE, l[1], l[2])>>),
                    AcceptAll, FALSE)
    \/ SetForwarding(TRUE)
    \/ \E hostOnly \in BOOLEAN, desc \in BOOLEAN : Ordered(desc) /\ CleanupState(hostOnly, desc)
    \/ \E ip \in JobsOf("rtrInv") : RunRtrInvJob(ip)
    \/ \E prefix \in JobsOf("onLinkInv") : RunOnLinkInvJob(prefix)
    \/ \E prefix \in JobsOf("slaacDep") : RunSlaacDepJob(prefix)
    \/ \E prefix \in JobsOf("slaacInv") : RunSlaacInvJob(prefix, FALSE)
    \/ \E a \in JobsOf("tempDep") : RunTempDepJob(a)
    \/ \E a \in JobsOf("tempInv") : RunTempInvJob(a)
    \/ \E a \in JobsOf("tempRegen") : RunTempRegenJob(a, AcceptAll)
SpecHost == InitHost /\ [][NextHost]_vars

\* Router Advertisements of every content: router lifetime, flags, and no
\* option or one Prefix Information option for a global prefix.
Advertisements ==
    {RA(rl, m, o, opts) :
        rl \in {0, 1}, m \in BOOLEAN, o \in BOOLEAN,
        opts \in {<<>>} \cup {<<PI(Prefix(p, 64), f[1], f[2], l[1], l[2])>> :
                                 p \in 1..2, f \in Flags, l \in {<<0, 0>>, <<1, 1>>}}}

\* C14: when HandleRAs is false or the stack forwards, handleRA changes no
\* NDP state (DHCPv6 signal, router table, on-link prefix table, SLAAC
\* table, jobs) and calls nothing, whatever the Router Advertisement holds.
C14_IgnoredWhenNotHost ==
    (~configs.HandleRAs \/ protocol.Forwarding) =>
        \A ip \in {Router(1), Router(2)}, ra \in Advertisements :
            SameState(AfterRA(ip, ra, AcceptAll))
\* The stack forwards while a router, a prefix and an address with their jobs
\* are still remembered.
C14_Witness ==
    /\ protocol.Forwarding
    /\ defaultRouters # EmptyMap
    /\ onLinkPrefixes # EmptyMap
    /\ Has(slaacPrefixes, Prefix(1, 64))
    /\ jobs # EmptyMap
    /\ dhcpv6Configuration = DHCPv6NoConfiguration

CleanedUp(hostOnly, desc) == cleanupState(BeginIter(AcceptAll, desc), hostOnly)
\* The SLAAC prefixes a cleanup has to remove.
ToRemove(hostOnly) ==
    DOMAIN slaacPrefixes \ (IF hostOnly THEN {IPv6LinkLocalPrefix} ELSE {})
\* The addresses of the SLAAC prefixes a cleanup has to remove.
AddrsToRemove(hostOnly) ==
    UNION {DOMAIN slaacPrefixes[p].tempAddrs
              \cup ({slaacPrefixes[p].stableAddr.addressEndpoint} \ {NilAddr}) :
                 p \in ToRemove(hostOnly)}
CallsOf(es, type, key) == Len(SelectSeq(es, LAMBDA e : e.type = type /\ e.key = key))
CallsOfType(es, type) == Len(SelectSeq(es, LAMBDA e : e.type = type))
\* The jobs of the entries a cleanup may keep: those of the link-local prefix.
KeptJobs(hostOnly) ==
    IF hostOnly THEN {SlaacDepJob(IPv6LinkLocalPrefix), SlaacInvJob(IPv6LinkLocalPrefix)}
    ELSE {}

\* C16: after cleanupState(hostOnly), run in any reachable state, the router
\* table and the on-link prefix table are empty, the SLAAC table holds the
\* link-local prefix at most, and only when hostOnly is true; every address,
\* temporary or stable, of a removed SLAAC prefix has been invalidated, the
\* integrator has been told once of each removed router and on-link prefix,
\* and no job of a removed entry is left to fire.
C16_CleanupRemovesAll ==
    \A hostOnly \in BOOLEAN, desc \in BOOLEAN :
        LET s == CleanedUp(hostOnly, desc)
        IN /\ Ok(s)
           /\ s.defaultRouters = EmptyMap
           /\ s.onLinkPrefixes = EmptyMap
           /\ DOMAIN s.slaacPrefixes = DOMAIN slaacPrefixes \ ToRemove(hostOnly)
           /\ \A p \in DOMAIN s.slaacPrefixes : s.slaacPrefixes[p] = slaacPrefixes[p]
           /\ \A a \in AddrsToRemove(hostOnly) :
                 /\ ~Has(s.addrs, a)
                 /\ CallsOf(s.events, "AutoGenAddressInvalidated", a) = 1
           /\ CallsOfType(s.events, "AutoGenAddressInvalidated")
                 = Cardinality(AddrsToRemove(hostOnly))
           /\ \A ip \in DOMAIN defaultRouters :
                 CallsOf(s.events, "RouterInvalidated", ip) = 1
           /\ CallsOfType(s.events, "RouterInvalidated") = Cardinality(DOMAIN defaultRouters)
           /\ \A prefix \in DOMAIN onLinkPrefixes :
                 CallsOf(s.events, "OnLinkPrefixInvalidated", prefix) = 1
           /\ CallsOfType(s.events, "OnLinkPrefixInvalidated")
                 = Cardinality(DOMAIN onLinkPrefixes)
           /\ DOMAIN s.jobs \subseteq KeptJobs(hostOnly)
\* A cleanup of a host has just removed a router, an on-link prefix and a
\* SLAAC prefix with a temporary address, and has kept the link-local prefix.
C16_Witness ==
    /\ DOMAIN slaacPrefixes = {IPv6LinkLocalPrefix}
    /\ defaultRouters = EmptyMap
    /\ onLinkPrefixes = EmptyMap
    /\ CallsOfType(events, "RouterInvalidated") = 1
    /\ CallsOfType(events, "OnLinkPrefixInvalidated") = 1
    /\ CallsOfType(events, "AutoGenAddressInvalidated") >= 2
    /\ jobs = EmptyMap

(***************************************************************************)
(* SpecDhcp: the routers on the link advertise themselves with every       *)
(* combination of the Managed and Other flags; the stack enters and leaves *)
(* forwarding mode; the state is cleaned up; the router jobs fire.         *)
(***************************************************************************)
InitDhcp == InitWith(BaseConfigs, BaseProtocol, Env(0, 2, 0), {"phase"})
NextDhcp ==
    \/ Tick
    \/ \E ip \in RoutersOnLink, rl \in {0, 1}, m \in BOOLEAN, o \in BOOLEAN :
           HandleRA(ip, RA(rl, m, o, <<>>), AcceptAll, FALSE)
    \/ \E b \in BOOLEAN : SetForwarding(b)
    \/ \E hostOnly \in BOOLEAN : CleanupState(hostOnly, FALSE)
    \/ \E ip \in JobsOf("rtrInv") : RunRtrInvJob(ip)
SpecDhcp == InitDhcp /\ [][NextDhcp]_vars

\* The signal of an advertisement: Managed if M is set, else Other if O is
\* set, else NoConfiguration.
SignalOf(ra) ==
    IF ra.ManagedAddrConfFlag THEN DHCPv6ManagedAddress
    ELSE IF ra.OtherConfFlag THEN DHCPv6OtherConfigurations
    ELSE DHCPv6NoConfiguration
DHCPv6Calls(es) == SelectSeq(es, LAMBDA e : e.type = "DHCPv6Configuration")
FlagsOnly == {RA(rl, m, o, <<>>) : rl \in {0, 1}, m \in BOOLEAN, o \in BOOLEAN}
\* The same advertisement once more, right after s.
Again(s, ip, ra) == handleRA([s EXCEPT !.events = <<>>], ip, ra)

\* What handleRA does with the flags of ra in the present state.
C15_OnArrival ==
    \A ip \in RoutersOnLink, ra \in FlagsOnly :
        LET s == AfterRA(ip, ra, AcceptAll)
            calls == DHCPv6Calls(s.events)
        IN /\ Len(calls) <= 1
           /\ calls # <<>> =>
                 /\ SignalOf(ra) # dhcpv6Configuration
                 /\ calls[1] = Ev("DHCPv6Configuration", NilAddr, SignalOf(ra), "nil")
                 /\ s.dhcpv6Configuration = SignalOf(ra)
           /\ calls = <<>> => s.dhcpv6Configuration = dhcpv6Configuration
           /\ calls # <<>> \/ SignalOf(ra) = dhcpv6Configuration
                  \/ ~configs.HandleRAs \/ protocol.Forwarding
           /\ DHCPv6Calls(Again(s, ip, ra).events) = <<>>
\* What every step of the run does.
C15_Step ==
    LET calls == DHCPv6Calls(events')
    IN /\ Len(calls) <= 1
       /\ calls # <<>> => /\ calls[1].a # dhcpv6Configuration
                          /\ calls[1].a = dhcpv6Configuration'
\* C15: OnDHCPv6Configuration is called only when the signal of the
\* advertisement (Managed if M, else Other if O, else NoConfiguration) is not
\* the stored one, which then becomes the signal; the same advertisement
\* arriving again causes no second call.
C15_NotifiedOnChangeOnly == []C15_OnArrival /\ [][C15_Step]_vars
\* The integrator has just been told of Other after Managed was stored.
C15_Witness ==
    /\ DHCPv6Calls(events) =
          <<Ev("DHCPv6Configuration", NilAddr, DHCPv6OtherConfigurations, "nil")>>
    /\ dhcpv6Configuration = DHCPv6OtherConfigurations
    /\ hist.phase # EmptyMap
    /\ defaultRouters # EmptyMap

AfterCleanup(hostOnly) == cleanupState(BeginIter(AcceptAll, FALSE), hostOnly)
\* The endpoint is a host that handles Router Advertisements.
Handles == configs.HandleRAs /\ ~protocol.Forwarding

ConflictConfigs ==
    [BaseConfigs EXCEPT !.AutoGenAddressConflictRetries = 1,
                        !.AutoGenTempGlobalAddresses = TRUE,
                        !.MaxTempAddrValidLifetime = MinPrefixInformationValidLifetimeForUpdate,
                        !.MaxTempAddrPreferredLifetime = MinPrefixInformationValidLifetimeForUpdate]
InitConflict == InitWith(ConflictConfigs, BaseProtocol, Env(0, 1, 1), {"phase"})
StableOrNot == {AcceptAll, [AcceptAll EXCEPT !.stable = FALSE]}
NextConflict ==
    \/ Tick
    \/ \E prefix \in PrefixesOnLink, l \in {<<1, 1>>, <<Long, Long>>}, d \in StableOrNot :
           /\ Asked(d, prefix)
           /\ HandleRA(Router(1),
                       RA(0, FALSE, FALSE, <<PI(prefix, FALSE, TRUE, l[1], l[2])>>),
                       d, FALSE)
    \/ \E a \in JobsOf("dad") : RunDadJob(a, TRUE, AcceptAll)
    \/ \E a \in DOMAIN dad, d \in StableOrNot : DupTentativeAddrDetected(a, d)
    \/ \E prefix \in JobsOf("slaacDep") : RunSlaacDepJob(prefix)
    \/ \E prefix \in JobsOf("slaacInv") : RunSlaacInvJob(prefix, FALSE)
    \/ \E a \in JobsOf("tempDep") : RunTempDepJob(a)
    \/ \E a \in JobsOf("tempInv") : RunTempInvJob(a)
    \/ \E a \in JobsOf("tempRegen") : RunTempRegenJob(a, AcceptAll)
    \/ CleanupState(FALSE, FALSE)
SpecConflict == InitConflict /\ [][NextConflict]_vars

\* Every entry of the SLAAC prefix table has the handle of a stable address,
\* which the endpoint holds.
StableHandles(s) ==
    \A prefix \in DOMAIN s.slaacPrefixes :
        /\ s.slaacPrefixes[prefix].stableAddr.addressEndpoint # NilAddr
        /\ Has(s.addrs, s.slaacPrefixes[prefix].stableAddr.addressEndpoint)
\* The stable addresses a neighbour may still answer for.
TentativeStable ==
    {a \in DOMAIN addrs : addrs[a].configType = "slaac"
                             /\ addrs[a].kind = "PermanentTentative"}
AfterConflict(a, d) == dupTentativeAddrDetected(Begin(d), a)
\* No address can be generated for the prefix: the integrator refuses it or
\* the attempts are used up.
CannotRegenerate(prefix, d) ==
    \/ ~d.stable
    \/ slaacPrefixes[prefix].generationAttempts = slaacPrefixes[prefix].maxGenerationAttempts

\* C19: between operations every entry of the SLAAC prefix table has a stable
\* address handle; a stable address that cannot be generated in doSLAAC
\* leaves no entry, and one that cannot be regenerated after a DAD conflict
\* takes the entry of its prefix with it.
C19_EveryPrefixHasStableAddress ==
    /\ StableHandles(St)
    /\ \A prefix \in GlobalPrefixes \ DOMAIN slaacPrefixes, l \in {<<1, 1>>, <<Long, Long>>} :
          LET s == AfterOption(PI(prefix, FALSE, TRUE, l[1], l[2]),
                               [AcceptAll EXCEPT !.stable = FALSE])
          IN /\ ~Has(s.slaacPrefixes, prefix)
             /\ s.addrs = addrs
    /\ \A a \in TentativeStable, d \in StableOrNot :
          LET s == AfterConflict(a, d)
          IN /\ Ok(s)
             /\ StableHandles(s)
             /\ ~Has(s.addrs, a)
             /\ CannotRegenerate(SubnetOf(a), d) <=> ~Has(s.slaacPrefixes, SubnetOf(a))
\* A neighbour has just answered for the stable address of prefix 1 and the
\* integrator has refused the address generated in its place: the prefix is
\* gone.
C19_Witness ==
    /\ EventsOfType("AutoGenAddressInvalidated")
          = <<Ev("AutoGenAddressInvalidated", StableAddr(1, 0), FALSE, "nil")>>
    /\ EventsOfType("AutoGenAddress")
          = <<Ev("AutoGenAddress", StableAddr(1, 1), FALSE, "nil")>>
    /\ slaacPrefixes = EmptyMap
    /\ addrs = EmptyMap


(***************************************************************************)
(* Temporary addresses at their creation: SLAAC with temporary addresses   *)
(* on, the lifetimes every temporary address was created with being kept.  *)
(***************************************************************************)
\* Configurations as validate() leaves them: MaxTempAddrValidLifetime at
\* least MinMaxTempAddrValidLifetime = 2 h, MaxTempAddrPreferredLifetime at
\* most MaxTempAddrValidLifetime, RegenAdvanceDuration at least 0.
TempConfigs ==
    {[c EXCEPT !.MaxTempAddrValidLifetime = v] :
        c \in {k \in SlaacConfigs : k.AutoGenTempGlobalAddresses},
        v \in {MinPrefixInformationValidLifetimeForUpdate, Long}}
InitTemp ==
    \E c \in TempConfigs :
        InitWith(c, BaseProtocol, Env(0, 1, 1), {"tempCreated"})
NextTemp ==
    \/ Tick
    \/ \E prefix \in PrefixesOnLink, l \in Lifetimes :
           HandleRA(Router(1), RA(0, FALSE, FALSE, <<PI(prefix, FALSE, TRUE, l[1], l[2])>>),
                    AcceptAll, FALSE)
    \/ \E a \in JobsOf("dad") : RunDadJob(a, TRUE, AcceptAll)
    \/ \E prefix \in JobsOf("slaacDep") : RunSlaacDepJob(prefix)
    \/ \E prefix \in JobsOf("slaacInv") : RunSlaacInvJob(prefix, FALSE)
    \/ \E a \in JobsOf("tempDep") : RunTempDepJob(a)
    \/ \E a \in JobsOf("tempInv") : RunTempInvJob(a)
    \/ \E a \in JobsOf("tempRegen") : RunTempRegenJob(a, AcceptAll)
SpecTemp == InitTemp /\ [][NextTemp]_vars

\* The temporary addresses of the prefix table.
TempAddrsIn(table) ==
    UNION {DOMAIN table[prefix].tempAddrs : prefix \in DOMAIN table}
TempStateIn(table, a) ==
    LET prefix == CHOOSE q \in DOMAIN table : Has(table[q].tempAddrs, a)
    IN table[prefix].tempAddrs[a]
\* The deadline of a job scheduled d after the instant t.
DeadlineAt(t, d) == [st |-> "sched", at |-> Min(t + d, Horizon)]

\* C25: a temporary address that a step creates has createdAt = now; the
\* preferred lifetime pl it was computed with is at most its valid lifetime
\* vl, so its deprecation deadline now + pl is no later than its invalidation
\* deadline now + vl; and its regeneration deadline is the deprecation
\* deadline less RegenAdvanceDuration.
C25_TempAddrAtCreation ==
    [][\A a \in TempAddrsIn(slaacPrefixes') \ TempAddrsIn(slaacPrefixes) :
          /\ Has(hist'.tempCreated, a)
          /\ LET c == hist'.tempCreated[a]
                 adv == configs'.RegenAdvanceDuration
             IN /\ TempStateIn(slaacPrefixes', a).createdAt = now'
                /\ c.at = now'
                /\ c.pl <= c.vl
                /\ Has(jobs', TempDepJob(a)) /\ Has(jobs', TempInvJob(a))
                /\ Has(jobs', TempRegenJob(a))
                /\ jobs'[TempDepJob(a)] = DeadlineAt(now', c.pl)
                /\ jobs'[TempInvJob(a)] = DeadlineAt(now', c.vl)
                /\ jobs'[TempInvJob(a)].at >= jobs'[TempDepJob(a)].at
                /\ jobs'[TempRegenJob(a)] = DeadlineAt(now', c.pl - adv)]_vars
\* A temporary address was created just now with 2 h to its deprecation and
\* its invalidation, to be regenerated RegenAdvanceDuration = 1 h before.
C25_Witness ==
    /\ now = 0
    /\ configs.RegenAdvanceDuration = 1
    /\ \E a \in TempAddrsIn(slaacPrefixes) :
          /\ TempStateIn(slaacPrefixes, a).createdAt = now
          /\ Has(hist.tempCreated, a)
          /\ hist.tempCreated[a] = [at |-> 0, pl |-> 2, vl |-> 2]
          /\ Has(jobs, TempDepJob(a)) /\ jobs[TempDepJob(a)] = DeadlineAt(0, 2)
          /\ Has(jobs, TempInvJob(a)) /\ jobs[TempInvJob(a)] = DeadlineAt(0, 2)
          /\ Has(jobs, TempRegenJob(a)) /\ jobs[TempRegenJob(a)] = DeadlineAt(0, 1)

(***************************************************************************)
(* Router Solicitation without transmit errors and without                 *)
(* stopSolicitingRouters: the timers fire and the clock moves on.          *)
(***************************************************************************)
SolicitConfigs ==
    {[BaseConfigs EXCEPT !.MaxRtrSolicitations = r, !.MaxRtrSolicitationDelay = dl,
                         !.RtrSolicitationInterval = i] :
        r \in 0..MaxRtrSolicit, dl \in 0..2, i \in 1..2}
InitRs == \E c \in SolicitConfigs : InitWith(c, BaseProtocol, Env(0, 0, 0), {"rs"})
\* rand.Int63n(MaxRtrSolicitationDelay) yields a delay in [0, MaxRtrSolicitationDelay).
Delays == {d \in 0..1 : d < configs.MaxRtrSolicitationDelay \/ d = 0}
NextRs ==
    \/ Tick
    \/ \E delay \in Delays : StartSolicitingRouters(delay)
    \/ RunRsJob(TRUE)
SpecRs == InitRs /\ [][NextRs]_vars /\ WF_vars(Tick) /\ WF_vars(RunRsJob(TRUE))

\* The Router Solicitations sent so far are no more than MaxRtrSolicitations:
\* the first after a delay in [0, MaxRtrSolicitationDelay) (none if that bound
\* is 0), each later one RtrSolicitationInterval after the one before; a job
\* is pending exactly while fewer than MaxRtrSolicitations were sent.
RsBurst ==
    LET sent == hist.rs.sent
        M == configs.MaxRtrSolicitations
        bound == configs.MaxRtrSolicitationDelay
    IN /\ Len(sent) <= M
       /\ M = 0 => ~rtrSolicit.job /\ ~Has(jobs, RsJob) /\ events = <<>>
       /\ ~rtrSolicit.job => sent = <<>> /\ ~Has(jobs, RsJob)
       /\ rtrSolicit.job => (Has(jobs, RsJob) <=> Len(sent) < M)
       /\ rtrSolicit.job => rtrSolicit.remaining = M - Len(sent)
       /\ Len(sent) >= 1 =>
              /\ sent[1] - hist.rs.start >= 0
              /\ IF bound > 0 THEN sent[1] - hist.rs.start < bound
                 ELSE sent[1] = hist.rs.start
       /\ \A i \in 2..Len(sent) : sent[i] - sent[i - 1] = configs.RtrSolicitationInterval
\* The burst that began ends within the run, whatever the delay.
RsInTime ==
    /\ rtrSolicit.job
    /\ hist.rs.start + (IF configs.MaxRtrSolicitationDelay > 0
                        THEN configs.MaxRtrSolicitationDelay - 1 ELSE 0)
         + (configs.MaxRtrSolicitations - 1) * configs.RtrSolicitationInterval <= MaxTime
RsAllSent == Len(hist.rs.sent) = configs.MaxRtrSolicitations /\ ~Has(jobs, RsJob)

\* C26: with MaxRtrSolicitations = M > 0, no transmit error and no
\* stopSolicitingRouters, one startSolicitingRouters leads to exactly M Router
\* Solicitations: the first after a delay in [0, MaxRtrSolicitationDelay)
\* (0 if that bound is 0), each later one RtrSolicitationInterval after the
\* one before, none after the M-th; with M = 0 there is no job and no Router
\* Solicitation.
C26_ExactlyMSolicitations == []RsBurst /\ (RsInTime ~> RsAllSent)
\* Two Router Solicitations went out, 1 h after the start and 1 h later, and
\* no job is left.
C26_Witness ==
    /\ configs.MaxRtrSolicitations = 2
    /\ configs.MaxRtrSolicitationDelay = 2
    /\ hist.rs = [start |-> 0, sent |-> <<1, 2>>]
    /\ rtrSolicit = [job |-> TRUE, remaining |-> 0]
    /\ ~Has(jobs, RsJob)
    /\ events = <<Ev("RS", NilAddr, TRUE, "nil")>>

(***************************************************************************)
(* NDPConfigurations.validate.  Here the durations of a configuration are  *)
(* in milliseconds, the unit of the smallest bound validate() compares     *)
(* with; the configuration is validated before the endpoint uses it.       *)
(***************************************************************************)
\* time.Second, in milliseconds.
defaultRetransmitTimer == 1000
\* time.Millisecond
minimumRetransmitTimer == 1
\* 4 * time.Second
defaultRtrSolicitationInterval == 4000
\* 500 * time.Millisecond
minimumRtrSolicitationInterval == 500
\* time.Second
defaultMaxRtrSolicitationDelay == 1000
minimumMaxRtrSolicitationDelay == 0
\* 7 * 24 * time.Hour
defaultMaxTempAddrValidLifetime == 604800000
\* 24 * time.Hour
defaultMaxTempAddrPreferredLifetime == 86400000
\* 5 * time.Second
defaultRegenAdvanceDuration == 5000
minRegenAdvanceDuration == 0
\* defaultRegenAdvanceDuration + MaxDesyncFactor + time.Hour, with
\* MaxDesyncFactor = 10 * time.Minute
MinMaxTempAddrPreferredLifetime == 4205000
\* 2 * time.Hour
MinMaxTempAddrValidLifetime == 7200000

\* Every out-of-range option replaced by its default.
validateToDefaults(c) ==
    LET c1 == IF c.RetransmitTimer < minimumRetransmitTimer
              THEN [c EXCEPT !.RetransmitTimer = defaultRetransmitTimer] ELSE c
        c2 == IF c1.RtrSolicitationInterval < minimumRtrSolicitationInterval
              THEN [c1 EXCEPT !.RtrSolicitationInterval = defaultRtrSolicitationInterval]
              ELSE c1
        c3 == IF c2.MaxRtrSolicitationDelay < minimumMaxRtrSolicitationDelay
              THEN [c2 EXCEPT !.MaxRtrSolicitationDelay = defaultMaxRtrSolicitationDelay]
              ELSE c2
        c4 == IF c3.MaxTempAddrValidLifetime < MinMaxTempAddrValidLifetime
              THEN [c3 EXCEPT !.MaxTempAddrValidLifetime = defaultMaxTempAddrValidLifetime]
              ELSE c3
        c5 == IF \/ c4.MaxTempAddrPreferredLifetime < MinMaxTempAddrPreferredLifetime
                 \/ c4.MaxTempAddrPreferredLifetime > c4.MaxTempAddrValidLifetime
              THEN [c4 EXCEPT !.MaxTempAddrPreferredLifetime =
                                  defaultMaxTempAddrPreferredLifetime]
              ELSE c4
    IN IF c5.RegenAdvanceDuration < minRegenAdvanceDuration
       THEN [c5 EXCEPT !.RegenAdvanceDuration = defaultRegenAdvanceDuration] ELSE c5

\* func (c *NDPConfigurations) validate(): the checks in their order, each on
\* the configuration the checks before it left.
validate(c) ==
    LET c1 == IF c.RetransmitTimer < minimumRetransmitTimer
              THEN [c EXCEPT !.RetransmitTimer = defaultRetransmitTimer] ELSE c
        c2 == IF c1.RtrSolicitationInterval < minimumRtrSolicitationInterval
              THEN [c1 EXCEPT !.RtrSolicitationInterval = defaultRtrSolicitationInterval]
              ELSE c1
        c3 == IF c2.MaxRtrSolicitationDelay < minimumMaxRtrSolicitationDelay
              THEN [c2 EXCEPT !.MaxRtrSolicitationDelay = defaultMaxRtrSolicitationDelay]
              ELSE c2
        c4 == IF c3.MaxTempAddrValidLifetime < MinMaxTempAddrValidLifetime
              THEN [c3 EXCEPT !.MaxTempAddrValidLifetime = MinMaxTempAddrValidLifetime]
              ELSE c3
        c5 == IF \/ c4.MaxTempAddrPreferredLifetime < MinMaxTempAddrPreferredLifetime
                 \/ c4.MaxTempAddrPreferredLifetime > c4.MaxTempAddrValidLifetime
              THEN [c4 EXCEPT !.MaxTempAddrPreferredLifetime = MinMaxTempAddrPreferredLifetime]
              ELSE c4
    IN IF c5.RegenAdvanceDuration < minRegenAdvanceDuration
       THEN [c5 EXCEPT !.RegenAdvanceDuration = minRegenAdvanceDuration] ELSE c5

\* The configuration the integrator hands over is validated.
Validate ==
    /\ Running
    /\ Commit([Begin(AcceptAll) EXCEPT !.configs = validate(@)])

\* Configurations as an integrator may write them: every option below its
\* range, at the low end of it, or well inside it; a preferred lifetime of
\* 3 h is above a valid lifetime of 2 h.  No value is one validate() puts in.
UnvalidatedConfigs ==
    {[BaseConfigs EXCEPT !.RetransmitTimer = rt, !.RtrSolicitationInterval = ri,
                         !.MaxRtrSolicitationDelay = md, !.MaxTempAddrValidLifetime = vl,
                         !.MaxTempAddrPreferredLifetime = pl, !.RegenAdvanceDuration = ad] :
        rt \in {0, minimumRetransmitTimer, 2000},
        ri \in {499, minimumRtrSolicitationInterval, 5000},
        md \in {-1, 0, 2000},
        vl \in {MinMaxTempAddrValidLifetime - 1, MinMaxTempAddrValidLifetime + 1,
                8 * 86400000},
        pl \in {3600000, MinMaxTempAddrPreferredLifetime + 1, 3 * 3600000},
        ad \in {-1, 1, 7000}}
InitValidate ==
    \E c \in UnvalidatedConfigs : InitWith(c, BaseProtocol, Env(0, 0, 0), {})
NextValidate == Validate
SpecValidate == InitValidate /\ [][NextValidate]_vars

\* validate() on the configuration of the state.
Validated == validate(configs)
\* The options validate() leaves as they are when they are in range.
InRangeKept ==
    /\ Validated.RetransmitTimer =
           IF configs.RetransmitTimer < 1 THEN 1000 ELSE configs.RetransmitTimer
    /\ Validated.RtrSolicitationInterval =
           IF configs.RtrSolicitationInterval < 500
           THEN 4000 ELSE configs.RtrSolicitationInterval
    /\ Validated.MaxRtrSolicitationDelay =
           IF configs.MaxRtrSolicitationDelay < 0
           THEN 1000 ELSE configs.MaxRtrSolicitationDelay
    /\ \A f \in DOMAIN configs \ {"RetransmitTimer", "RtrSolicitationInterval",
                                  "MaxRtrSolicitationDelay", "MaxTempAddrValidLifetime",
                                  "MaxTempAddrPreferredLifetime", "RegenAdvanceDuration"} :
           Validated[f] = configs[f]

C28_EntryMeansTransmitsLeft ==
    \A a \in DOMAIN dad :
        /\ Has(addrs, a) /\ addrs[a].kind = "PermanentTentative"
        /\ dad[a].remaining > 0
\* C28, amended: every address with an entry in the DAD table is
\* PermanentTentative, its DAD job is pending and its detection has not
\* ended; remaining is DupAddrDetectTransmits less the Neighbor Solicitations
\* sent, from DupAddrDetectTransmits down to 0, and is 0 while the job waits
\* RetransmitTimer after the last one; an address whose detection resolved,
\* failed or was stopped has no entry.
C28_EntryMeansDetectionRunning ==
    /\ \A a \in DOMAIN dad :
           /\ Has(addrs, a) /\ addrs[a].kind = "PermanentTentative"
           /\ Has(jobs, DadJob(a))
           /\ dad[a].remaining \in 0..configs.DupAddrDetectTransmits
           /\ Has(hist.dadRun, a) /\ hist.dadRun[a].outcome = "running"
           /\ dad[a].remaining = configs.DupAddrDetectTransmits - hist.dadRun[a].ns
           /\ dad[a].remaining = 0 =>
                  jobs[DadJob(a)].at = Min(hist.dadRun[a].lastNS + configs.RetransmitTimer,
                                           Horizon)
    /\ \A a \in DOMAIN hist.dadRun : hist.dadRun[a].outcome # "running" => ~Has(dad, a)
\* Every Neighbor Solicitation of an address was sent, and it is in the DAD
\* table, tentative, until its job runs after RetransmitTimer.
C28_Witness ==
    \E a \in DOMAIN dad :
        /\ dad[a].remaining = 0
        /\ hist.dadRun[a].ns = configs.DupAddrDetectTransmits
        /\ configs.DupAddrDetectTransmits = MaxDadTransmits
        /\ addrs[a].kind = "PermanentTentative"
        /\ jobs[DadJob(a)].st = "sched"

(***************************************************************************)
(* The end of Duplicate Address Detection on static, stable and temporary  *)
(* addresses side by side: resolution, transmit error, stop.               *)
(***************************************************************************)
ResolveConfigs ==
    {[BaseConfigs EXCEPT !.AutoGenTempGlobalAddresses = tmp,
                         !.AutoGenAddressConflictRetries = r,
                         !.MaxTempAddrValidLifetime = MinPrefixInformationValidLifetimeForUpdate,
                         !.MaxTempAddrPreferredLifetime =
                             MinPrefixInformationValidLifetimeForUpdate] :
        tmp \in BOOLEAN, r \in 0..1}
InitResolve == \E c \in ResolveConfigs : InitWith(c, BaseProtocol, Env(1, 1, 1), {"dadRun"})
TempOrNot == {AcceptAll, [AcceptAll EXCEPT !.temp = FALSE]}
NextResolve ==
    \/ Tick
    \/ \E prefix \in PrefixesOnLink,
          l \in {<<Long, Long>>, <<NDPInfiniteLifetime, NDPInfiniteLifetime>>} :
           HandleRA(Router(1), RA(0, FALSE, FALSE, <<PI(prefix, FALSE, TRUE, l[1], l[2])>>),
                    AcceptAll, FALSE)
    \/ \E a \in UserAddrs : AddAddress(a)
    \/ \E a \in JobsOf("dad"), sent \in BOOLEAN, d \in TempOrNot :
           /\ ~d.temp => configs.AutoGenTempGlobalAddresses /\ addrs[a].configType = "slaac"
           /\ RunDadJob(a, sent, d)
    \/ \E a \in DOMAIN dad : StopDAD(a)
SpecResolve == InitResolve /\ [][NextResolve]_vars

\* The addresses whose detection ends in the step, and the temporary
\* addresses the step creates.
DadEnds == {a \in DOMAIN dad : ~Has(dad', a)}
NewTemps == TempAddrsIn(slaacPrefixes') \ TempAddrsIn(slaacPrefixes)
\* The integrator is asked about a temporary address of the prefix.
AskedForTemp(prefix) ==
    \E i \in 1..Len(events') :
        /\ events'[i].type = "AutoGenAddress"
        /\ events'[i].key.t = "temp"
        /\ SubnetOf(events'[i].key) = prefix
C29_Step ==
    \A a \in DadEnds :
        IF hist'.dadRun[a].outcome = "resolved" /\ addrs[a].configType = "slaac"
        THEN LET prefix == SubnetOf(a) IN
             /\ panic' = NoPanic
             /\ Has(slaacPrefixes, prefix) /\ Has(slaacPrefixes', prefix)
             /\ IF configs.AutoGenTempGlobalAddresses
                THEN /\ AskedForTemp(prefix)
                     /\ NewTemps \subseteq DOMAIN slaacPrefixes'[prefix].tempAddrs
                     /\ Cardinality(NewTemps) <= 1
                     /\ slaacPrefixes'[prefix].generationAttempts = Cardinality(NewTemps)
                     /\ slaacPrefixes'[prefix].maxGenerationAttempts =
                            configs.AutoGenAddressConflictRetries + 1
                ELSE NewTemps = {} /\ slaacPrefixes' = slaacPrefixes
        ELSE /\ NewTemps = {}
             /\ \A prefix \in DOMAIN slaacPrefixes' : ~AskedForTemp(prefix)
             /\ hist'.dadRun[a].outcome \in {"resolved", "failed", "stopped"}
             /\ hist'.dadRun[a].outcome \in {"failed", "stopped"} /\ Has(addrs', a)
                    => addrs'[a].kind = "PermanentTentative"

\* C29: when detection resolves for a stable SLAAC address, its prefix is
\* tracked and temporary generation runs for that prefix with the
\* generation-attempts counter reset: the integrator is asked about a
\* temporary address of the prefix, and the counter is 1 if the address was
\* added, 0 if not (nothing happens with temporary addresses off); when
\* detection ends by a transmit error or a stop, or resolves for a temporary
\* or a static address, the step generates no temporary address.
C29_TempOnlyAfterStableResolved == [][C29_Step]_vars
\* Detection has just resolved for the stable address of prefix 1 while the
\* static address is there, and the first temporary address of the prefix was
\* generated: both callbacks were made in the step.
C29_Witness ==
    /\ Has(hist.dadRun, StableAddr(1, 0)) /\ hist.dadRun[StableAddr(1, 0)].outcome = "resolved"
    /\ Has(addrs, StaticAddr(1))
    /\ events = <<Ev("DADStatus", StableAddr(1, 0), TRUE, "nil"),
                  Ev("AutoGenAddress", TempAddr(1, 1), TRUE, "nil")>>
    /\ Has(slaacPrefixes, Prefix(1, 64))
    /\ DOMAIN slaacPrefixes[Prefix(1, 64)].tempAddrs = {TempAddr(1, 1)}
    /\ slaacPrefixes[Prefix(1, 64)].generationAttempts = 1
    /\ Has(dad, TempAddr(1, 1))

(***************************************************************************)
(* The lifetime of a default router: its Router Advertisements arrive, the *)
(* clock moves on and the invalidation jobs fire.                          *)
(***************************************************************************)
Routers == {Router(i) : i \in 1..2}
InitRouter == InitWith(TablesConfigs, BaseProtocol, Env(0, 2, 0), {"ra"})
NextRouter ==
    \/ Tick
    \/ \E ip \in Routers, rl \in 0..Long :
           HandleRA(ip, RA(rl, FALSE, FALSE, <<>>), AcceptAll, FALSE)
    \/ \E ip \in Routers : RunRtrInvJob(ip)
SpecRouter ==
    /\ InitRouter /\ [][NextRouter]_vars
    /\ WF_vars(Tick) /\ \A ip \in Routers : WF_vars(RunRtrInvJob(ip))

\* The instant the lifetime of the last Router Advertisement of ip ends.
LastDeadline(h, ip) == h.ra[ip].at + h.ra[ip].rl
\* A remembered router has one invalidation job, due when the lifetime of its
\* last Router Advertisement, which was not 0, ends; it is in the table until
\* then, and its job has fired exactly when that instant has come.
RouterUntilDeadline ==
    \A ip \in DOMAIN defaultRouters :
        /\ Has(hist.ra, ip) /\ hist.ra[ip].rl # 0
        /\ Has(jobs, RtrInvJob(ip))
        /\ jobs[RtrInvJob(ip)].at = Min(LastDeadline(hist, ip), Horizon)
        /\ now <= LastDeadline(hist, ip)
        /\ jobs[RtrInvJob(ip)].st = "fired" <=> now = LastDeadline(hist, ip)
\* A router leaves the table by a Router Advertisement with lifetime 0, or, no
\* Router Advertisement arriving, by its job at the deadline, and then with
\* one RouterInvalidated callback; as long as it is in the table no job but
\* its own is there for it.
RouterLeaves ==
    \A ip \in DOMAIN defaultRouters :
        ~Has(defaultRouters', ip) =>
            /\ ~Has(jobs', RtrInvJob(ip))
            /\ SelectSeq(events', LAMBDA e : e.key = ip)
                   = <<Ev("RouterInvalidated", ip, TRUE, "nil")>>
            /\ IF hist'.ra = hist.ra
               THEN now = LastDeadline(hist, ip) /\ now' = now
               ELSE Has(hist'.ra, ip) /\ hist'.ra[ip] = [at |-> now, rl |-> 0]
\* The router is remembered, its last Router Advertisement came at t with
\* lifetime rl, and that lifetime ends within the run.
RouterDue(ip, t, rl) ==
    /\ Has(defaultRouters, ip)
    /\ Has(hist.ra, ip) /\ hist.ra[ip] = [at |-> t, rl |-> rl]
\* The router was removed at the deadline, or a further advertisement came.
RouterGoneOrRefreshed(ip, t, rl) ==
    /\ Has(hist.ra, ip)
    /\ \/ ~Has(defaultRouters, ip) /\ hist.ra[ip] = [at |-> t, rl |-> rl] /\ now = t + rl
       \/ hist.ra[ip] # [at |-> t, rl |-> rl]

\* C30: a remembered default router is invalidated by its timer exactly when
\* the lifetime of the most recent Router Advertisement from it with a
\* lifetime other than 0 has elapsed: each such advertisement replaces the
\* one pending deadline, the router stays in the table until the latest
\* deadline, and if no further advertisement arrives it is eventually removed
\* with one RouterInvalidated callback.
C30_InvalidatedAtLatestDeadline ==
    /\ []RouterUntilDeadline
    /\ [][RouterLeaves]_vars
    /\ \A ip \in Routers, t \in 0..MaxTime, rl \in 1..MaxTime :
           t + rl <= MaxTime => (RouterDue(ip, t, rl) ~> RouterGoneOrRefreshed(ip, t, rl))
\* Router 1 was advertised at 0 with a lifetime of 2 h and at 1 h with a
\* lifetime of 1 h or more; now, at 2 h, its job has removed it.
C30_Witness ==
    /\ now = 2
    /\ ~Has(defaultRouters, Router(1))
    /\ Has(hist.ra, Router(1)) /\ hist.ra[Router(1)] = [at |-> 1, rl |-> 1]
    /\ events = <<Ev("RouterInvalidated", Router(1), TRUE, "nil")>>

(***************************************************************************)
(* The lifetime of an on-link prefix: Prefix Information options with the  *)
(* on-link flag arrive, the clock moves on, the invalidation jobs fire and *)
(* the state is cleaned up.                                                *)
(***************************************************************************)
OnLinkPrefixes == {Prefix(i, validPrefixLenForAutoGen) : i \in 1..2}
InitOnLink == InitWith(TablesConfigs, BaseProtocol, Env(0, 0, 2), {"pi"})
NextOnLink ==
    \/ Tick
    \/ \E prefix \in OnLinkPrefixes, vl \in {0, 1, 2, NDPInfiniteLifetime}, accept \in BOOLEAN :
           HandleRA(Router(1), RA(0, FALSE, FALSE, <<PI(prefix, TRUE, FALSE, vl, vl)>>),
                    [AcceptAll EXCEPT !.prefix = accept], FALSE)
    \/ \E prefix \in OnLinkPrefixes : RunOnLinkInvJob(prefix)
    \/ \E hostOnly \in BOOLEAN : CleanupState(hostOnly, FALSE)
SpecOnLink ==
    /\ InitOnLink /\ [][NextOnLink]_vars
    /\ WF_vars(Tick) /\ \A prefix \in OnLinkPrefixes : WF_vars(RunOnLinkInvJob(prefix))

\* The prefix is in the table and the valid lifetime of the last Prefix
\* Information option handled for it is infinite.
KnownForever(table, h, prefix) ==
    /\ Has(table, prefix)
    /\ Has(h.pi, prefix) /\ h.pi[prefix].vl = NDPInfiniteLifetime
\* Such a prefix has no invalidation job, pending or expired.
NoDeadlineWhenInfinite ==
    \A prefix \in OnLinkPrefixes :
        KnownForever(onLinkPrefixes, hist, prefix) => ~Has(jobs, OnLinkInvJob(prefix))
\* A step from a state where the prefix is known with an infinite lifetime is
\* not the step of its invalidation job; a job pending for a known prefix is
\* cancelled by an option with an infinite lifetime; and the prefix leaves the
\* table only by an option with valid lifetime 0 or by cleanupState.
OnlyRemovedOnRequest ==
    \A prefix \in OnLinkPrefixes :
        /\ KnownForever(onLinkPrefixes, hist, prefix) => ~RunOnLinkInvJob(prefix)
        /\ Has(onLinkPrefixes, prefix) /\ Has(jobs, OnLinkInvJob(prefix))
             /\ KnownForever(onLinkPrefixes', hist', prefix)
             => ~Has(jobs', OnLinkInvJob(prefix))
        /\ KnownForever(onLinkPrefixes, hist, prefix) /\ ~Has(onLinkPrefixes', prefix)
             => \/ hist'.pi[prefix] = [at |-> now, vl |-> 0]
                \/ \E hostOnly \in BOOLEAN : CleanupState(hostOnly, FALSE)

\* C31: an on-link prefix whose most recently handled valid lifetime is
\* infinite has no pending invalidation deadline and is never invalidated by
\* a timer: remembered with an infinite lifetime its job is left unscheduled,
\* refreshed with an infinite lifetime its pending job is cancelled, and it is
\* removed only by a Prefix Information option with valid lifetime 0 or by
\* cleanupState.
C31_InfiniteOnLinkPrefixHasNoDeadline ==
    /\ []NoDeadlineWhenInfinite
    /\ [][OnlyRemovedOnRequest]_vars
\* The last option for prefix 1 came at 1 h with an infinite valid lifetime;
\* an hour later the prefix is still on-link and no job is there for it.
C31_Witness ==
    /\ now = 2
    /\ Has(onLinkPrefixes, Prefix(1, validPrefixLenForAutoGen))
    /\ Has(hist.pi, Prefix(1, validPrefixLenForAutoGen))
    /\ hist.pi[Prefix(1, validPrefixLenForAutoGen)] = [at |-> 1, vl |-> NDPInfiniteLifetime]
    /\ ~Has(jobs, OnLinkInvJob(Prefix(1, validPrefixLenForAutoGen)))

(***************************************************************************)
(* generateTempSLAACAddr on every prefix state: temporary addresses on or  *)
(* off, the link-local prefix and an advertised one, every number of       *)
(* retries, with and without the reset of the attempts.                    *)
(***************************************************************************)
GenConfigs ==
    {c \in {[BaseConfigs EXCEPT
                 !.DupAddrDetectTransmits = 0,
                 !.AutoGenTempGlobalAddresses = tmp,
                 !.AutoGenAddressConflictRetries = r,
                 !.MaxTempAddrValidLifetime = MinPrefixInformationValidLifetimeForUpdate,
                 !.MaxTempAddrPreferredLifetime = MinPrefixInformationValidLifetimeForUpdate,
                 !.RegenAdvanceDuration = adv] :
                tmp \in BOOLEAN, r \in {0, Uint8 - 1}, adv \in 0..1} :
        \/ c.RegenAdvanceDuration = 0
        \/ c.AutoGenTempGlobalAddresses /\ c.AutoGenAddressConflictRetries = 0}
InitGen == \E c \in GenConfigs : InitWith(c, BaseProtocol, Env(0, 1, 1), {})
\* regenerateTempSLAACAddr(prefix, resetGenAttempts) on a tracked prefix.
RegenerateTemp(prefix, resetGenAttempts) ==
    /\ Running
    /\ Has(slaacPrefixes, prefix)
    /\ Commit(regenerateTempSLAACAddr(Begin(AcceptAll), prefix, resetGenAttempts))
    /\ InBounds
NextGen ==
    \/ Tick
    \/ DoSLAAC(IPv6LinkLocalPrefix, NDPInfiniteLifetime, NDPInfiniteLifetime)
    \/ \E prefix \in PrefixesOnLink,
          l \in {<<1, 1>>, <<1, Long>>, <<Long, Long>>,
                  <<NDPInfiniteLifetime, NDPInfiniteLifetime>>} :
           HandleRA(Router(1), RA(0, FALSE, FALSE, <<PI(prefix, FALSE, TRUE, l[1], l[2])>>),
                    AcceptAll, FALSE)
    \/ \E prefix \in DOMAIN slaacPrefixes, resetGenAttempts \in BOOLEAN :
           RegenerateTemp(prefix, resetGenAttempts)
    \/ \E prefix \in JobsOf("slaacDep") : RunSlaacDepJob(prefix)
    \/ \E prefix \in JobsOf("slaacInv") : RunSlaacInvJob(prefix, FALSE)
    \/ \E a \in JobsOf("tempDep") : RunTempDepJob(a)
    \/ \E a \in JobsOf("tempInv") : RunTempInvJob(a)
    \/ \E a \in JobsOf("tempRegen") : RunTempRegenJob(a, AcceptAll)
SpecGen == InitGen /\ [][NextGen]_vars

\* The prefix state as generateTempSLAACAddr looks at it after the reset it
\* was asked for.
AttemptsAfterReset(ps, resetGenAttempts) ==
    IF resetGenAttempts
    THEN [generationAttempts |-> 0,
          maxGenerationAttempts |-> (configs.AutoGenAddressConflictRetries + 1) % Uint8]
    ELSE [generationAttempts |-> ps.generationAttempts,
          maxGenerationAttempts |-> ps.maxGenerationAttempts]
\* The lifetimes it computes for the new address.
TempVl(ps) ==
    IF ps.validUntil # ZeroTime
    THEN Min(configs.MaxTempAddrValidLifetime, ps.validUntil - now)
    ELSE configs.MaxTempAddrValidLifetime
TempPl(ps) ==
    IF ps.preferredUntil # ZeroTime
    THEN Min(configs.MaxTempAddrPreferredLifetime - desyncFactor, ps.preferredUntil - now)
    ELSE configs.MaxTempAddrPreferredLifetime - desyncFactor
\* The five cases in which no temporary address is to be created.
NoTempFor(prefix, ps, resetGenAttempts) ==
    LET a == AttemptsAfterReset(ps, resetGenAttempts)
    IN \/ ~configs.AutoGenTempGlobalAddresses
       \/ prefix = IPv6LinkLocalPrefix
       \/ a.generationAttempts = a.maxGenerationAttempts
       \/ TempVl(ps) <= 0
       \/ TempPl(ps) <= configs.RegenAdvanceDuration
\* generateTempSLAACAddr(prefix, &state, resetGenAttempts) in this state.
GeneratedTemp(prefix, resetGenAttempts) ==
    generateTempSLAACAddr(WithPS(Begin(AcceptAll), prefix, slaacPrefixes[prefix]),
                          prefix, resetGenAttempts)

\* C32: generateTempSLAACAddr creates no temporary address when
\* AutoGenTempGlobalAddresses is false, for the link-local prefix, when
\* generationAttempts equals maxGenerationAttempts after the reset that was
\* asked for, when the valid lifetime it computes is not above 0, and when
\* the preferred lifetime it computes is not above RegenAdvanceDuration: it
\* returns false and leaves the temporary addresses and all jobs as they are.
C32_NoTempAddrInTheseCases ==
    \A prefix \in DOMAIN slaacPrefixes, resetGenAttempts \in BOOLEAN :
        NoTempFor(prefix, slaacPrefixes[prefix], resetGenAttempts) =>
            LET s == GeneratedTemp(prefix, resetGenAttempts)
            IN /\ Ok(s) /\ ~s.ret
               /\ s.ps.tempAddrs = slaacPrefixes[prefix].tempAddrs
               /\ s.jobs = jobs
               /\ s.addrs = addrs
               /\ s.temporaryIIDHistory = temporaryIIDHistory
               /\ s.events = <<>>
\* Temporary addresses are on and the valid lifetime of prefix 1 has just run
\* out, its invalidation job not having run yet: asked with the reset,
\* generateTempSLAACAddr finds attempts left, a valid lifetime of 0, and
\* returns false.
C32_Witness ==
    /\ configs.AutoGenTempGlobalAddresses
    /\ Has(slaacPrefixes, Prefix(1, 64))
    /\ slaacPrefixes[Prefix(1, 64)].validUntil = now
    /\ Fired(SlaacInvJob(Prefix(1, 64)))
    /\ AttemptsAfterReset(slaacPrefixes[Prefix(1, 64)], TRUE).maxGenerationAttempts = 1
    /\ TempVl(slaacPrefixes[Prefix(1, 64)]) = 0
    /\ ~GeneratedTemp(Prefix(1, 64), TRUE).ret

\* The regeneration job of a temporary address that has its successor does
\* nothing.
RegeneratedOnce ==
    \A a \in TempAddrsIn(slaacPrefixes) :
        TempStateIn(slaacPrefixes, a).regenerated =>
            SameState(tempRegenJobBody(Begin(AcceptAll), a))
\* In the step of the regeneration job of a, at most one temporary address is
\* new, none if a was regenerated before, and the flag of a tells afterwards
\* whether one is; in no step does a flag that is true become false.
RegenStep ==
    \A a \in TempAddrsIn(slaacPrefixes) :
        LET new == TempAddrsIn(slaacPrefixes') \ TempAddrsIn(slaacPrefixes)
            before == TempStateIn(slaacPrefixes, a).regenerated
        IN /\ RunTempRegenJob(a, AcceptAll) =>
                 /\ a \in TempAddrsIn(slaacPrefixes')
                 /\ Cardinality(new) <= 1
                 /\ before => new = {}
                 /\ ~before => (TempStateIn(slaacPrefixes', a).regenerated <=> new # {})
           /\ before /\ a \in TempAddrsIn(slaacPrefixes') =>
                 TempStateIn(slaacPrefixes', a).regenerated

\* C33: each temporary address causes at most one successor through its
\* regeneration job: the job generates only if the flag `regenerated` of its
\* address is false and sets the flag to the outcome of the generation; once
\* the flag is true it is never false again, and a later run of the job
\* creates nothing.
C33_OneSuccessorPerRegenJob ==
    /\ []RegeneratedOnce
    /\ [][RegenStep]_vars
\* The regeneration job of the first temporary address of prefix 1, created
\* at 0, has run at 1 h: the address is marked as regenerated, its job is
\* gone, and the integrator was told of the second temporary address.
C33_Witness ==
    /\ now = 1
    /\ Has(slaacPrefixes, Prefix(1, 64))
    /\ DOMAIN slaacPrefixes[Prefix(1, 64)].tempAddrs = {TempAddr(1, 1), TempAddr(1, 2)}
    /\ slaacPrefixes[Prefix(1, 64)].tempAddrs[TempAddr(1, 1)].regenerated
    /\ ~slaacPrefixes[Prefix(1, 64)].tempAddrs[TempAddr(1, 2)].regenerated
    /\ slaacPrefixes[Prefix(1, 64)].tempAddrs[TempAddr(1, 2)].createdAt = 1
    /\ ~Has(jobs, TempRegenJob(TempAddr(1, 1)))
    /\ Len(events) >= 1 /\ events[1] = Ev("AutoGenAddress", TempAddr(1, 2), TRUE, "nil")

\* The earlier of the instant t and the deadline of the prefix, which is
\* the zero time if the prefix has none.
Earlier(t, until) == IF until # ZeroTime /\ until < t THEN until ELSE t
\* The state after the autonomous option l for the tracked prefix was handled.
AfterRefresh(prefix, l, desc) ==
    handleOptions(BeginIter(AcceptAll, desc), <<PI(prefix, FALSE, TRUE, l[1], l[2])>>)
\* The deadlines of the temporary address with state tas under prefix state ps.
TempValidUntil(tas, ps) ==
    Earlier(tas.createdAt + configs.MaxTempAddrValidLifetime, ps.validUntil)
TempPreferredUntil(tas, ps) ==
    Earlier(tas.createdAt + (configs.MaxTempAddrPreferredLifetime - desyncFactor),
            ps.preferredUntil)
\* In state s every temporary address of the prefix has its jobs at these
\* deadlines, which are ahead, or is deprecated without a deprecation job.
TempDeadlinesIn(s, prefix) ==
    LET ps == s.slaacPrefixes[prefix]
    IN \A a \in DOMAIN ps.tempAddrs :
        LET tas == ps.tempAddrs[a]
            validUntil == TempValidUntil(tas, ps)
            preferredUntil == TempPreferredUntil(tas, ps)
        IN /\ validUntil > now
           /\ validUntil <= tas.createdAt + configs.MaxTempAddrValidLifetime
           /\ Has(s.addrs, a)
           /\ Has(s.jobs, tas.invalidationJob)
           /\ s.jobs[tas.invalidationJob] = DeadlineAt(0, validUntil)
           /\ IF preferredUntil > now
              THEN /\ Has(s.jobs, tas.deprecationJob)
                   /\ s.jobs[tas.deprecationJob] = DeadlineAt(0, preferredUntil)
                   /\ ~s.addrs[a].deprecated
              ELSE /\ ~Has(s.jobs, tas.deprecationJob)
                   /\ s.addrs[a].deprecated
\* A temporary address whose valid deadline under the new prefix state ps
\* is not ahead is gone from the prefix and from the endpoint.
TempExpiredIn(s, prefix) ==
    \A a \in DOMAIN slaacPrefixes[prefix].tempAddrs :
        TempValidUntil(slaacPrefixes[prefix].tempAddrs[a], s.slaacPrefixes[prefix]) <= now
            => /\ ~Has(s.slaacPrefixes[prefix].tempAddrs, a)
               /\ ~Has(s.addrs, a)
               /\ \A id \in DOMAIN s.jobs : id.key # a

\* C34: after a Prefix Information refresh of a prefix whose stable address
\* is Permanent, every temporary address that is left has its invalidation
\* deadline at min(createdAt + MaxTempAddrValidLifetime, prefix.validUntil)
\* and its deprecation deadline at min(createdAt +
\* MaxTempAddrPreferredLifetime - desyncFactor, prefix.preferredUntil), so
\* never beyond the maxima counted from its creation; one whose valid
\* deadline is not ahead was invalidated in the refresh, and one whose
\* preferred deadline is not ahead is deprecated.
C34_TempDeadlinesAfterRefresh ==
    \A prefix \in DOMAIN slaacPrefixes, l \in Refreshes, desc \in BOOLEAN :
        GetKind(St, slaacPrefixes[prefix].stableAddr.addressEndpoint) = "Permanent" =>
            LET s == AfterRefresh(prefix, l, desc)
            IN /\ Ok(s)
               /\ Has(s.slaacPrefixes, prefix)
               /\ TempDeadlinesIn(s, prefix)
               /\ TempExpiredIn(s, prefix)
\* At 1 h the prefix was advertised with 3 h: its deadline is at 4 h, and the
\* temporary address created at 0 with MaxTempAddrValidLifetime = 2 h keeps
\* its invalidation and deprecation at 2 h.
C34_Witness ==
    /\ now = 1
    /\ configs.MaxTempAddrValidLifetime = 2
    /\ Has(slaacPrefixes, Prefix(1, 64))
    /\ slaacPrefixes[Prefix(1, 64)].validUntil = 1 + Long
    /\ slaacPrefixes[Prefix(1, 64)].preferredUntil = 1 + Long
    /\ Has(slaacPrefixes[Prefix(1, 64)].tempAddrs, TempAddr(1, 1))
    /\ slaacPrefixes[Prefix(1, 64)].tempAddrs[TempAddr(1, 1)].createdAt = 0
    /\ Has(jobs, TempInvJob(TempAddr(1, 1)))
    /\ jobs[TempInvJob(TempAddr(1, 1))] = DeadlineAt(0, 2)
    /\ Has(jobs, TempDepJob(TempAddr(1, 1)))
    /\ jobs[TempDepJob(TempAddr(1, 1))] = DeadlineAt(0, 2)
    /\ TempDeadlinesIn(St, Prefix(1, 64))

\* The temporary addresses of the prefix that are not regenerated and whose
\* preferred lifetime after the refresh l is at most RegenAdvanceDuration.
RegenNow(prefix, l) ==
    LET s == AfterRefresh(prefix, l, FALSE)
    IN {a \in DOMAIN slaacPrefixes[prefix].tempAddrs :
           /\ ~slaacPrefixes[prefix].tempAddrs[a].regenerated
           /\ Has(s.slaacPrefixes, prefix) /\ Has(s.slaacPrefixes[prefix].tempAddrs, a)
           /\ TempPreferredUntil(slaacPrefixes[prefix].tempAddrs[a], s.slaacPrefixes[prefix])
                  - now <= configs.RegenAdvanceDuration}
\* The callbacks from the one that tells of address a on are about a only.
LastToldOf(evs, a) ==
    \A i \in 1..Len(evs) :
        evs[i] = Ev("AutoGenAddress", a, TRUE, "nil") =>
            \A j \in i..Len(evs) : evs[j].key = a

\* C35: one Prefix Information refresh creates at most one new temporary
\* address for the prefix, however many of its temporary addresses have a new
\* preferred lifetime of at most RegenAdvanceDuration; the new address is
\* generated after the loop over the temporary addresses has ended.
C35_OneNewTempPerRefresh ==
    \A prefix \in DOMAIN slaacPrefixes, l \in Refreshes, desc \in BOOLEAN :
        LET s == AfterRefresh(prefix, l, desc)
            new == TempAddrsIn(s.slaacPrefixes) \ TempAddrsIn(slaacPrefixes)
        IN /\ Ok(s)
           /\ Cardinality(new) <= 1
           /\ s.temporaryIIDHistory <= temporaryIIDHistory + 1
           /\ Len(SelectSeq(s.events, LAMBDA e : e.type = "AutoGenAddress")) = Cardinality(new)
           /\ \A a \in new :
                /\ TempStateIn(s.slaacPrefixes, a).createdAt = now
                /\ ~TempStateIn(s.slaacPrefixes, a).regenerated
                /\ LastToldOf(s.events, a)
\* Two temporary addresses of prefix 1 are not regenerated; advertised with
\* a preferred lifetime of 2 h, both are left with at most
\* RegenAdvanceDuration, and the refresh generates one new address.
C35_Witness ==
    /\ Has(slaacPrefixes, Prefix(1, 64))
    /\ Cardinality(RegenNow(Prefix(1, 64), <<2, Long>>)) = 2
    /\ Cardinality(TempAddrsIn(AfterRefresh(Prefix(1, 64), <<2, Long>>, FALSE).slaacPrefixes)
                       \ TempAddrsIn(slaacPrefixes)) = 1

\* The temporary addresses of the prefix whose flag `regenerated` in state s
\* is not what it is now.
FlagsChanged(s, prefix) ==
    {a \in DOMAIN slaacPrefixes[prefix].tempAddrs :
        /\ Has(s.slaacPrefixes, prefix) /\ Has(s.slaacPrefixes[prefix].tempAddrs, a)
        /\ s.slaacPrefixes[prefix].tempAddrs[a].regenerated
               # slaacPrefixes[prefix].tempAddrs[a].regenerated}
\* regenForAddr at the end of the loop: the last address the loop visits
\* that asks for an immediate regeneration, if there is one.
MarkedForRegen(prefix, l, desc) ==
    LET asking == SelectSeq(RangeOrder(DOMAIN slaacPrefixes[prefix].tempAddrs, desc),
                            LAMBDA a : a \in RegenNow(prefix, l))
    IN IF asking = <<>> THEN {} ELSE {asking[Len(asking)]}

\* C36: in a refresh, a generation that succeeds sets `regenerated` on the
\* temporary address marked for immediate regeneration in that refresh and
\* on no other; no flag changes when the generation was made only because
\* every temporary address was regenerated already or none exists, nor when
\* the generation fails or none is attempted.
C36_OnlyTheMarkedAddressIsFlagged ==
    \A prefix \in DOMAIN slaacPrefixes, l \in Refreshes, desc \in BOOLEAN :
        LET s == AfterRefresh(prefix, l, desc)
            new == TempAddrsIn(s.slaacPrefixes) \ TempAddrsIn(slaacPrefixes)
        IN /\ Ok(s)
           /\ FlagsChanged(s, prefix) =
                  IF new # {} THEN MarkedForRegen(prefix, l, desc) ELSE {}
           /\ \A a \in FlagsChanged(s, prefix) :
                  s.slaacPrefixes[prefix].tempAddrs[a].regenerated
           /\ \A q \in DOMAIN slaacPrefixes \ {prefix} : FlagsChanged(s, q) = {}
\* Two temporary addresses of prefix 1 ask for an immediate regeneration
\* when the prefix is advertised with a preferred lifetime of 2 h; the
\* refresh generates an address and flags the one of the two that the loop
\* visited last.
C36_Witness ==
    /\ Has(slaacPrefixes, Prefix(1, 64))
    /\ RegenNow(Prefix(1, 64), <<2, Long>>) = {TempAddr(1, 1), TempAddr(1, 2)}
    /\ FlagsChanged(AfterRefresh(Prefix(1, 64), <<2, Long>>, TRUE), Prefix(1, 64))
           = {TempAddr(1, 1)}
    /\ FlagsChanged(AfterRefresh(Prefix(1, 64), <<2, Long>>, FALSE), Prefix(1, 64))
           = {TempAddr(1, 2)}

\* The burst is running: the job of the Router Solicitations is pending.
BurstRunning == Has(jobs, RsJob)
\* startSolicitingRouters() in this state changes nothing.
StartIsNoOp(delay) == SameState(startSolicitingRouters(Begin(AcceptAll), delay))

\* C37: startSolicitingRouters does nothing only when a burst is running or
\* MaxRtrSolicitations is 0: called after the last burst has ended, all
\* Router Solicitations sent or a transmit having failed, and without
\* stopSolicitingRouters since, it starts a new burst of MaxRtrSolicitations.
C37_RestartAfterFinishedBurst ==
    \A delay \in Delays :
        IF BurstRunning \/ configs.MaxRtrSolicitations = 0
        THEN StartIsNoOp(delay)
        ELSE LET s == startSolicitingRouters(Begin(AcceptAll), delay)
             IN /\ Has(s.jobs, RsJob)
                /\ s.rtrSolicit = [job |-> TRUE, remaining |-> configs.MaxRtrSolicitations]

(***************************************************************************)
(* Router Solicitation started and stopped: startSolicitingRouters and     *)
(* stopSolicitingRouters at any instant, also between the expiry of the    *)
(* job's timer and the run of its body; transmits that succeed or fail.    *)
(***************************************************************************)
StopConfigs ==
    {[BaseConfigs EXCEPT !.MaxRtrSolicitations = m, !.MaxRtrSolicitationDelay = dl] :
        m \in 0..MaxRtrSolicit, dl \in {0, 2}}
InitStop == \E c \in StopConfigs : InitWith(c, BaseProtocol, Env(0, 0, 0), {"rs", "late"})
NextStop ==
    \/ Tick
    \/ \E delay \in Delays : StartSolicitingRouters(delay)
    \/ StopSolicitingRouters
    \/ \E sent \in BOOLEAN : RunRsJob(sent)
SpecStop == InitStop /\ [][NextStop]_vars

\* With the handle nil there is no job, no timer that has expired included,
\* stopSolicitingRouters changes nothing, and startSolicitingRouters begins a
\* burst of MaxRtrSolicitations after its delay.
QuietWhenStopped ==
    ~rtrSolicit.job =>
        /\ ~Has(jobs, RsJob)
        /\ SameState(stopSolicitingRouters(Begin(AcceptAll)))
        /\ configs.MaxRtrSolicitations > 0 =>
               \A delay \in Delays :
                   LET s == startSolicitingRouters(Begin(AcceptAll), delay)
                   IN /\ s.rtrSolicit = [job |-> TRUE,
                                         remaining |-> configs.MaxRtrSolicitations]
                      /\ Has(s.jobs, RsJob)
                      /\ s.jobs[RsJob] = IF delay = 0 THEN [st |-> "fired", at |-> now]
                                         ELSE DeadlineAt(now, delay)
                      /\ s.hist.rs = [start |-> now, sent |-> <<>>]
\* stopSolicitingRouters leaves the handle nil and no job, whatever the job's
\* timer had come to, and sends nothing; a Router Solicitation is written
\* only in a step that began with the handle set and the timer expired.
StopStep ==
    /\ StopSolicitingRouters =>
           /\ rtrSolicit' = [job |-> FALSE, remaining |-> 0]
           /\ ~Has(jobs', RsJob)
           /\ events' = <<>>
           /\ hist'.rs = hist.rs
    /\ (\E i \in 1..Len(events') : events'[i].type = "RS") =>
           rtrSolicit.job /\ Fired(RsJob)

\* C38: once stopSolicitingRouters has returned no Router Solicitation is
\* sent until the next startSolicitingRouters, also if the timer of the job
\* had expired and its body was waiting for the lock; the job handle is
\* cleared, and a following start begins a new burst of MaxRtrSolicitations;
\* with no job, stopSolicitingRouters does nothing.
C38_NoSolicitationAfterStop ==
    /\ []QuietWhenStopped
    /\ [][StopStep]_vars
\* One Router Solicitation of two was sent at 0; at 1 h the timer of the job
\* expired for the second, and stopSolicitingRouters cancelled the job before
\* its body ran.
C38_Witness ==
    /\ now = 1
    /\ configs.MaxRtrSolicitations = 2
    /\ hist.late = RsJob
    /\ hist.rs = [start |-> 0, sent |-> <<0>>]
    /\ rtrSolicit = [job |-> FALSE, remaining |-> 0]
    /\ ~Has(jobs, RsJob)
    /\ events = <<>>

\* maxGenerationAttempts as doSLAAC and the reset compute it: a uint8 sum.
CeilingOf(retries) == (retries + 1) % Uint8
\* No prefix has used more attempts than its ceiling.
AttemptsWithinCeiling ==
    \A prefix \in DOMAIN slaacPrefixes :
        slaacPrefixes[prefix].generationAttempts <= slaacPrefixes[prefix].maxGenerationAttempts
\* The first autonomous option for a prefix, with a valid lifetime that is
\* not 0 and an integrator that accepts, gives the prefix its stable address.
FirstOptionGenerates ==
    \A prefix \in PrefixesOnLink \ DOMAIN slaacPrefixes :
        LET s == AfterRefresh(prefix, <<Long, Long>>, FALSE)
        IN /\ Has(s.slaacPrefixes, prefix)
           /\ s.slaacPrefixes[prefix].stableAddr.addressEndpoint # NilAddr

\* C39: for every AutoGenAddressConflictRetries of 0..255 the ceiling
\* maxGenerationAttempts = retries + 1, computed in 8 bits, is at least 1 (it
\* does not wrap to 0), and generationAttempts is at most maxGenerationAttempts
\* in every reachable state, so the first autonomous option for a prefix is
\* never refused its stable address because of the ceiling.
C39_CeilingIsAtLeastOne ==
    /\ CeilingOf(configs.AutoGenAddressConflictRetries) >= 1
    /\ \A retries \in 0..(Uint8 - 1) : CeilingOf(retries) >= 1
    /\ AttemptsWithinCeiling
    /\ configs.AutoGenGlobalAddresses => FirstOptionGenerates

\* A finite valid deadline comes with a finite preferred deadline that is
\* not after it.
DeadlinesInOrder(ps) ==
    ps.validUntil # ZeroTime =>
        ps.preferredUntil # ZeroTime /\ ps.preferredUntil <= ps.validUntil

\* C40: every SLAAC prefix entry keeps its preferred deadline at or before
\* its valid deadline: if validUntil is finite, preferredUntil is finite and
\* not after it, after doSLAAC and after every refresh with pl <= vl, also
\* when the two-hour rule ignores the advertised valid lifetime or resets it
\* to 2 hours.
C40_PreferredNotAfterValid ==
    /\ \A prefix \in DOMAIN slaacPrefixes : DeadlinesInOrder(slaacPrefixes[prefix])
    /\ \A prefix \in PrefixesOnLink \cup DOMAIN slaacPrefixes, l \in Refreshes :
           LET s == AfterRefresh(prefix, l, FALSE)
           IN /\ Ok(s)
              /\ Has(s.slaacPrefixes, prefix) => DeadlinesInOrder(s.slaacPrefixes[prefix])
\* Prefix 1 was advertised with a valid lifetime of 3 h and then, at the same
\* instant, with preferred and valid lifetime of 1 h: the valid lifetime was
\* reset to 2 h and the preferred deadline is an hour before the valid one.
C40_Witness ==
    /\ now = 0
    /\ Has(slaacPrefixes, Prefix(1, 64))
    /\ slaacPrefixes[Prefix(1, 64)].validUntil = MinPrefixInformationValidLifetimeForUpdate
    /\ slaacPrefixes[Prefix(1, 64)].preferredUntil = 1
    /\ Has(jobs, SlaacInvJob(Prefix(1, 64)))
    /\ jobs[SlaacInvJob(Prefix(1, 64))] = DeadlineAt(0, MinPrefixInformationValidLifetimeForUpdate)

====
